---- MODULE Spec2Model ----
(***************************************************************************)
(* Bamboo Budget: the expense calculator of the add/edit form, the receipt *)
(* analysis gateway with its daily quota, the exchange-rate resolver with  *)
(* its same-day cache, and the persistence adapters (Firestore and         *)
(* localStorage).                                                          *)
(***************************************************************************)
EXTENDS Integers, Sequences, FiniteSets, TLC

(***************************************************************************)
(* JavaScript numbers.  Every number of the form is an IEEE 754 binary64   *)
(* value; the amounts of the model are non-negative and far from the       *)
(* overflow and underflow thresholds, so a number is a pair (m, e) with    *)
(* value m * 2^e, where m is 0 or has exactly Precision bits.  m does not  *)
(* fit TLC's integers and is a little-endian sequence of limbs below Base. *)
(***************************************************************************)
Base == 2^14

Precision == 53

Limb(a, i) == IF i <= Len(a) THEN a[i] ELSE 0

MaxOf(x, y) == IF x >= y THEN x ELSE y

MinOf(x, y) == IF x <= y THEN x ELSE y

RECURSIVE BNorm(_)
BNorm(a) ==
    IF a = <<>> THEN <<>>
    ELSE IF a[Len(a)] = 0 THEN BNorm(SubSeq(a, 1, Len(a) - 1)) ELSE a

RECURSIVE BAddFrom(_, _, _, _)
BAddFrom(a, b, i, c) ==
    IF i > MaxOf(Len(a), Len(b))
    THEN IF c = 0 THEN <<>> ELSE <<c>>
    ELSE LET s == Limb(a, i) + Limb(b, i) + c
         IN  <<s % Base>> \o BAddFrom(a, b, i + 1, s \div Base)

BAdd(a, b) == BNorm(BAddFrom(a, b, 1, 0))

RECURSIVE BSubFrom(_, _, _, _)
BSubFrom(a, b, i, w) ==
    IF i > Len(a) THEN <<>>
    ELSE LET d == Limb(a, i) - Limb(b, i) - w
         IN  IF d < 0 THEN <<d + Base>> \o BSubFrom(a, b, i + 1, 1)
                      ELSE <<d>> \o BSubFrom(a, b, i + 1, 0)

\* a - b for a >= b
BSub(a, b) == BNorm(BSubFrom(a, b, 1, 0))

RECURSIVE BCmpFrom(_, _, _)
BCmpFrom(a, b, i) ==
    IF i = 0 THEN 0
    ELSE IF a[i] < b[i] THEN -1
    ELSE IF a[i] > b[i] THEN 1
    ELSE BCmpFrom(a, b, i - 1)

\* -1, 0 or 1 as a < b, a = b or a > b (both normalised)
BCmp(a, b) ==
    IF Len(a) < Len(b) THEN -1
    ELSE IF Len(a) > Len(b) THEN 1
    ELSE BCmpFrom(a, b, Len(a))

RECURSIVE BMulFrom(_, _, _, _)
BMulFrom(a, k, i, c) ==
    IF i > Len(a)
    THEN IF c = 0 THEN <<>> ELSE <<c>>
    ELSE LET s == a[i] * k + c
         IN  <<s % Base>> \o BMulFrom(a, k, i + 1, s \div Base)

\* a * k for 0 <= k <= Base
BMulSmall(a, k) == BNorm(BMulFrom(a, k, 1, 0))

Zeros(n) == [i \in 1..n |-> 0]

RECURSIVE BMulAcc(_, _, _)
BMulAcc(a, b, i) ==
    IF i > Len(b) THEN <<>>
    ELSE BAdd(BNorm(Zeros(i - 1) \o BMulSmall(a, b[i])), BMulAcc(a, b, i + 1))

BMul(a, b) == BMulAcc(a, b, 1)

RECURSIVE BitLenSmall(_)
BitLenSmall(k) == IF k = 0 THEN 0 ELSE 1 + BitLenSmall(k \div 2)

LimbBits == BitLenSmall(Base - 1)

BBitLen(a) ==
    IF a = <<>> THEN 0 ELSE (Len(a) - 1) * LimbBits + BitLenSmall(a[Len(a)])

\* a * 2^s
BShl(a, s) ==
    IF a = <<>> THEN <<>>
    ELSE BMulSmall(Zeros(s \div LimbBits) \o a, 2^(s % LimbBits))

RECURSIVE BHalfFrom(_, _, _)
BHalfFrom(a, k, i) ==
    \* the limbs i..Len(a) of a \div k, k a power of two below Base
    IF i > Len(a) THEN <<>>
    ELSE <<(a[i] \div k) + (Limb(a, i + 1) % k) * (Base \div k)>>
         \o BHalfFrom(a, k, i + 1)

\* floor(a / 2^s)
BShr(a, s) ==
    LET drop == s \div LimbBits
        rest == IF drop >= Len(a) THEN <<>> ELSE SubSeq(a, drop + 1, Len(a))
    IN  BNorm(BHalfFrom(rest, 2^(s % LimbBits), 1))

BFromInt(k) == BNorm(<<k % Base, (k \div Base) % Base, k \div (Base * Base)>>)

FZero == [m |-> <<>>, e |-> 0]

\* round the exact value m * 2^e (plus a non-zero tail below it when sticky)
\* to the nearest number, ties to even
RoundToDouble(m, e, sticky) ==
    LET len == BBitLen(m) IN
    IF m = <<>> THEN FZero
    ELSE IF len <= Precision
    THEN [m |-> BShl(m, Precision - len), e |-> e - (Precision - len)]
    ELSE LET s    == len - Precision
             q    == BShr(m, s)
             rem  == BSub(m, BShl(q, s))
             half == BShl(<<1>>, s - 1)
             c    == BCmp(rem, half)
             odd  == q[1] % 2 = 1
             up   == c > 0 \/ (c = 0 /\ (sticky \/ odd))
             q2   == IF up THEN BAdd(q, <<1>>) ELSE q
         IN  IF BBitLen(q2) > Precision
             THEN [m |-> BShr(q2, 1), e |-> e + s + 1]
             ELSE [m |-> q2, e |-> e + s]

FFromInt(k) == RoundToDouble(BFromInt(k), 0, FALSE)

\* x * y
FMul(x, y) == RoundToDouble(BMul(x.m, y.m), x.e + y.e, FALSE)

RECURSIVE DivLoop(_, _, _, _)
DivLoop(r, d, q, n) ==
    \* n more quotient bits of r / d, appended to the bits q (most significant
    \* first); the result is <<q, r>>
    IF n = 0 THEN <<q, r>>
    ELSE LET r2  == BMulSmall(r, 2)
             bit == IF BCmp(r2, d) >= 0 THEN 1 ELSE 0
         IN  IF bit = 1
             THEN DivLoop(BSub(r2, d), d, Append(q, 1), n - 1)
             ELSE DivLoop(r2, d, Append(q, 0), n - 1)

\* the number whose binary digits, most significant first, are bits
BFromBits(bits) ==
    LET n == Len(bits)
        limbs == (n + LimbBits - 1) \div LimbBits
        BitAt(k) == IF k < n THEN bits[n - k] ELSE 0
        RECURSIVE LimbVal(_, _)
        LimbVal(i, j) ==
            IF j = LimbBits THEN 0
            ELSE BitAt((i - 1) * LimbBits + j) * 2^j + LimbVal(i, j + 1)
    IN  BNorm([i \in 1..limbs |-> LimbVal(i, 0)])

\* x / y for y > 0
FDiv(x, y) ==
    IF x.m = <<>> THEN FZero
    ELSE LET first == BCmp(x.m, y.m) >= 0
             qr    == DivLoop(IF first THEN BSub(x.m, y.m) ELSE x.m, y.m,
                              IF first THEN <<1>> ELSE <<0>>, Precision + 2)
         IN  RoundToDouble(BFromBits(qr[1]), x.e - y.e - (Precision + 2),
                           qr[2] # <<>>)

\* the two mantissas of x and y over their common (smaller) exponent
Aligned(x, y) ==
    LET e == IF x.m = <<>> THEN y.e ELSE IF y.m = <<>> THEN x.e ELSE MinOf(x.e, y.e)
    IN  [a |-> BShl(x.m, IF x.m = <<>> THEN 0 ELSE x.e - e),
         b |-> BShl(y.m, IF y.m = <<>> THEN 0 ELSE y.e - e),
         e |-> e]

FLeq(x, y) == LET al == Aligned(x, y) IN BCmp(al.a, al.b) <= 0

\* x + y
FAdd(x, y) == LET al == Aligned(x, y) IN RoundToDouble(BAdd(al.a, al.b), al.e, FALSE)

\* x - y for x >= y
FSub(x, y) == LET al == Aligned(x, y) IN RoundToDouble(BSub(al.a, al.b), al.e, FALSE)

\* Math.max(x, y)
FMax(x, y) == IF FLeq(x, y) THEN y ELSE x

\* Number(text) of the decimal text "h/100" typed in a number input
FFromHundredths(h) == FDiv(FFromInt(h), FFromInt(100))

\* |x - t| <= t * 2^-(Precision - 1): x and t differ by at most one unit in
\* the last place of t
WithinTolerance(x, t) ==
    LET al == Aligned(x, t)
        d  == IF BCmp(al.a, al.b) >= 0 THEN BSub(al.a, al.b) ELSE BSub(al.b, al.a)
    IN  BCmp(BShl(d, Precision - 1), al.b) <= 0


(***************************************************************************)
(* State.                                                                  *)
(*   modalOpen, step, form  : the add-expense form (create mode)           *)
(*   built                  : the expense the last handleSave passed to    *)
(*                            onSave                                        *)
(*   formFetches            : the fetchExchangeRate calls handleFetchRate  *)
(*                            is awaiting                                   *)
(*   today                  : the date new Date().toISOString() yields      *)
(*   localToday             : the date of the browser's local calendar      *)
(*   rateCache              : localStorage 'trippy_rate_cache'              *)
(*   rateCalls              : the fetchExchangeRate calls awaiting the      *)
(*                            external lookup                               *)
(*   lastRate               : what the last fetchExchangeRate call that    *)
(*                            returned gave its caller                      *)
(*   gotExternal, lastFailed: per currency, the last rate a lookup         *)
(*                            delivered and the day of the last failed call *)
(*   apiUsage, userApiKey   : localStorage 'bamboo_api_usage' and          *)
(*                            'bamboo_user_api_key'                         *)
(*   currentUserEmail       : auth.currentUser?.email                      *)
(*   analyses               : the analyzeReceipt calls awaiting the model  *)
(*   lastAnalysis           : how the last analyzeReceipt call ended       *)
(*   currentUser            : auth.currentUser of the Firestore adapter    *)
(*   tripDocs, expenseDocs  : the 'trips' and 'expenses' collections       *)
(*   delTrip                : the deleteTrip call in progress              *)
(*   lastOp                 : how the last adapter call ended              *)
(*   callerChanged          : the identity changed during the deleteTrip   *)
(*                            call in progress                              *)
(*   childWritten           : an expense of its trip was written during    *)
(*                            the deleteTrip call in progress              *)
(*   login                  : the stored login preference, the welcome     *)
(*                            screen, and the sign-in and fetchTrips calls  *)
(*                            awaited by the auth listener                  *)
(*   view                   : activeTripId and the fetchExpensesForTrip    *)
(*                            calls awaited by the load effect              *)
(*   editor                 : the item text editor of the form in edit     *)
(*                            mode: the items it was opened with, its      *)
(*                            itemsText, and the items handleSave parsed   *)
(***************************************************************************)
VARIABLES modalOpen, step, form, built, formFetches,
          today, localToday, rateCache, rateCalls, lastRate, gotExternal, lastFailed,
          apiUsage, userApiKey, currentUserEmail, analyses, lastAnalysis,
          currentUser, tripDocs, expenseDocs, delTrip, lastOp,
          callerChanged, childWritten,
          localTrips, localExpenses, localOp,
          trips, expenses, awaiting,
          link,
          login, view, editor

calcVars == <<modalOpen, step, form, built>>

rateVars == <<rateCache, rateCalls, lastRate, gotExternal, lastFailed>>

gateVars == <<apiUsage, userApiKey, currentUserEmail, analyses, lastAnalysis>>

storeVars == <<currentUser, tripDocs, expenseDocs, delTrip, lastOp,
               callerChanged, childWritten>>

localVars == <<localTrips, localExpenses, localOp>>

\* the variables added to the groups above
appVars == <<trips, expenses, awaiting>>

\* the login state and the open trip of the view controller, and the item
\* text editor
sessionVars == <<login, view, editor>>

restVars == <<localVars, appVars, link, sessionVars>>

vars == <<calcVars, formFetches, today, localToday, rateVars, gateVars, storeVars, restVars>>

\* what the form's actions leave alone, and what the resolver's leave alone
notCalc == <<formFetches, today, localToday, rateVars, gateVars, storeVars, restVars>>

notRate == <<calcVars, formFetches, gateVars, storeVars, restVars>>

notStore == <<calcVars, formFetches, today, localToday, rateVars, gateVars, restVars>>

notLocal == <<calcVars, formFetches, today, localToday, rateVars, gateVars, storeVars, appVars, link,
             sessionVars>>

\* the handlers of the view controller act on the remote store as well
notApp == <<calcVars, formFetches, today, localToday, rateVars, gateVars, localVars, link,
           sessionVars>>

\* the migration acts on the remote store as well
notLink == <<calcVars, formFetches, today, localToday, rateVars, gateVars, localVars, appVars,
            sessionVars>>

\* the item text editor with the form closed
ClosedEditor == [pc |-> "closed", items |-> <<>>, itemsText |-> <<>>, parsed |-> <<>>]

\* what the item text editor leaves alone
notEditor == <<calcVars, formFetches, today, localToday, rateVars, gateVars, storeVars,
              localVars, appVars, link, login, view>>

(***************************************************************************)
(* The add-expense form (create mode) and handleSave.                      *)
(***************************************************************************)
\* the amount state: '' (<<>>) or the whole number typed (<<n>>)
AmountInputs == {<<>>, <<0>>, <<1>>, <<3>>, <<7>>, <<1000>>}

\* the texts the user types in the rate field, in hundredths
RateInputs == {21, 22, 100, 450}

MaxPeople == 7

\* the numbers the user can enter as the number of people ("" reads as 0)
PeopleInputs == -1..MaxPeople

NoExpense == [kind |-> "none"]

\* the form's useState defaults
InitialForm == [amount |-> <<>>, currency |-> "TWD", rate |-> 100, rateSource |-> "",
                isFetchingRate |-> FALSE, isSplit |-> FALSE, totalPeople |-> 1]

\* resetForm: every field but isFetchingRate returns to its default
ResetForm(f) == [InitialForm EXCEPT !.isFetchingRate = f.isFetchingRate]

\* Number(amount) || 0
NumAmount(amount) == IF amount = <<>> THEN 0 ELSE amount[1]

\* isSplit ? Math.max(1, totalPeople) : 1
\* a slip: the number of people is taken as entered
SplitCountAsEntered(f) == IF f.isSplit THEN f.totalPeople ELSE 1

SplitCount(f) == IF f.isSplit THEN MaxOf(1, f.totalPeople) ELSE 1

\* a slip: the debt is the whole total instead of the others' part
BuildExpenseDebtIsTotal(f) ==
    LET numAmount  == FFromInt(NumAmount(f.amount))
        rate       == FFromHundredths(f.rate)
        totalTWD   == FMul(numAmount, rate)
        splitCount == SplitCount(f)
        myShareTWD == FDiv(totalTWD, FFromInt(splitCount))
    IN  [kind |-> "expense",
         originalAmount |-> numAmount,
         exchangeRate   |-> rate,
         totalTWD       |-> totalTWD,
         splitCount     |-> splitCount,
         myShareTWD     |-> myShareTWD,
         debtAmountTWD  |-> totalTWD]

\* the amounts handleSave computes from the form f
BuildExpense(f) ==
    LET numAmount     == FFromInt(NumAmount(f.amount))
        rate          == FFromHundredths(f.rate)
        totalTWD      == FMul(numAmount, rate)
        splitCount    == SplitCount(f)
        myShareTWD    == FDiv(totalTWD, FFromInt(splitCount))
        debtAmountTWD == FSub(totalTWD, myShareTWD)
    IN  [kind |-> "expense",
         originalAmount |-> numAmount,
         exchangeRate   |-> rate,
         totalTWD       |-> totalTWD,
         splitCount     |-> splitCount,
         myShareTWD     |-> myShareTWD,
         debtAmountTWD  |-> debtAmountTWD]

CalcInit ==
    /\ modalOpen = FALSE
    /\ step = "UPLOAD"
    /\ form = InitialForm
    /\ built = NoExpense
    /\ formFetches = {}

\* the modal opens in create mode: the step is UPLOAD and the form is reset
OpenModal ==
    /\ ~modalOpen
    /\ modalOpen' = TRUE
    /\ step' = "UPLOAD"
    /\ form' = ResetForm(form)
    /\ built' = NoExpense
    /\ UNCHANGED notCalc

\* the manual-entry button of the UPLOAD step; the form's currency is TWD,
\* so the currency effect fetches nothing
ManualEntry ==
    /\ modalOpen
    /\ step = "UPLOAD"
    /\ step' = "EDIT"
    /\ UNCHANGED <<modalOpen, form, built, notCalc>>

SetAmount ==
    /\ modalOpen
    /\ step = "EDIT"
    /\ \E a \in AmountInputs : form' = [form EXCEPT !.amount = a]
    /\ UNCHANGED <<modalOpen, step, built, notCalc>>

SetRate ==
    /\ modalOpen
    /\ step = "EDIT"
    /\ \E r \in RateInputs : form' = [form EXCEPT !.rate = r]
    /\ UNCHANGED <<modalOpen, step, built, notCalc>>

SetIsSplit ==
    /\ modalOpen
    /\ step = "EDIT"
    /\ \E b \in BOOLEAN : form' = [form EXCEPT !.isSplit = b]
    /\ UNCHANGED <<modalOpen, step, built, notCalc>>

SetTotalPeople ==
    /\ modalOpen
    /\ step = "EDIT"
    /\ form.isSplit
    /\ \E n \in PeopleInputs : form' = [form EXCEPT !.totalPeople = n]
    /\ UNCHANGED <<modalOpen, step, built, notCalc>>

\* handleSave: onSave(newExpense); onClose()
HandleSave ==
    /\ modalOpen
    /\ step = "EDIT"
    /\ built' = BuildExpense(form)
    /\ modalOpen' = FALSE
    /\ UNCHANGED <<step, form, notCalc>>

CalcNext ==
    \/ OpenModal
    \/ ManualEntry
    \/ SetAmount
    \/ SetRate
    \/ SetIsSplit
    \/ SetTotalPeople
    \/ HandleSave


(***************************************************************************)
(* The exchange-rate resolver (fetchExchangeRate) and its same-day cache.  *)
(* Rates are counted in hundredths.                                        *)
(***************************************************************************)
MaxDay == 2

MaxRateCalls == 2

RateCallIds == 1..MaxRateCalls

\* the currency texts a caller passes
Currencies == {"TWD", "twd", "JPY", "jpy"}

\* a slip: the text is used as typed
AsTyped(c) == c

\* currency.toUpperCase()
ToUpperCase(c) ==
    CASE c = "twd" -> "TWD"
      [] c = "jpy" -> "JPY"
      [] OTHER     -> c

CacheKeys == {ToUpperCase(c) : c \in Currencies}

NoEntry == [kind |-> "none"]

NoRate == [kind |-> "none"]

IdleCall == [pc |-> "idle"]

\* the day the clock shows: new Date().toISOString().split('T')[0]
TodayString == today

\* a slip: the freshness test is inverted
GetRateFromCacheStale(currency) ==
    LET entry == rateCache[currency]
    IN  IF entry # NoEntry /\ entry.date # TodayString THEN <<entry.rate>> ELSE <<>>

\* getRateFromCache: the rate stored for currency today, or null (<<>>)
GetRateFromCache(currency) ==
    LET entry == rateCache[currency]
    IN  IF entry # NoEntry /\ entry.date = TodayString THEN <<entry.rate>> ELSE <<>>

\* saveRateToCache: the cache after cache[currency] = {rate, date: today}
SaveRateToCache(currency, rate) ==
    [rateCache EXCEPT ![currency] = [kind |-> "entry", rate |-> rate, date |-> TodayString]]

Digits == {"0", "1", "2", "3", "4", "5", "6", "7", "8", "9"}

DigitValue(ch) ==
    CASE ch = "0" -> 0 [] ch = "1" -> 1 [] ch = "2" -> 2 [] ch = "3" -> 3
      [] ch = "4" -> 4 [] ch = "5" -> 5 [] ch = "6" -> 6 [] ch = "7" -> 7
      [] ch = "8" -> 8 [] ch = "9" -> 9

\* the texts the search-grounded model answers with, character by character;
\* <<>> is a response without text
LookupTexts ==
    { <<>>,
      <<"N", "/", "A">>,
      <<"0">>,
      <<".">>,
      <<"0", ".", "2", "1">>,
      <<"4", ".", "5">>,
      <<"1", " ", "J", "P", "Y", " ", "=", " ", "0", ".", "2", "2">> }

\* text.match(/[\d.]+/): the first run of digits and dots, or <<>>
RECURSIVE RunFrom(_, _)
RunFrom(text, i) ==
    IF i > Len(text) \/ text[i] \notin Digits \cup {"."} THEN <<>>
    ELSE <<text[i]>> \o RunFrom(text, i + 1)

RECURSIVE FirstRun(_, _)
FirstRun(text, i) ==
    IF i > Len(text) THEN <<>>
    ELSE IF text[i] \in Digits \cup {"."} THEN RunFrom(text, i)
    ELSE FirstRun(text, i + 1)

RECURSIVE DigitsFrom(_, _)
DigitsFrom(run, i) ==
    IF i > Len(run) \/ run[i] \notin Digits THEN <<>>
    ELSE <<run[i]>> \o DigitsFrom(run, i + 1)

RECURSIVE DigitsValue(_, _)
DigitsValue(ds, i) ==
    \* the value of the first i digits of ds
    IF i = 0 THEN 0 ELSE DigitsValue(ds, i - 1) * 10 + DigitValue(ds[i])

\* parseFloat(run) in hundredths, for a run of digits and dots with at most
\* two decimals; <<>> is NaN
ParseFloat(run) ==
    LET whole == DigitsFrom(run, 1)
        dot   == Len(whole) < Len(run) /\ run[Len(whole) + 1] = "."
        frac  == IF dot THEN DigitsFrom(run, Len(whole) + 2) ELSE <<>>
        f2    == frac \o <<"0", "0">>
    IN  IF whole = <<>> /\ frac = <<>> THEN <<>>
        ELSE <<DigitsValue(whole, Len(whole)) * 100 + DigitsValue(f2, 2)>>

\* match ? parseFloat(match[0]) : 0
ParsedRate(text) ==
    LET run == FirstRun(text, 1)
    IN  IF run = <<>> THEN <<0>> ELSE ParseFloat(run)

\* a slip: the fallback rate of a failed lookup is cached like a real one
RateOutcomeCachesFallback(threw, text) ==
    IF threw \/ text = <<>> THEN [rate |-> 100, source |-> "Error", cached |-> TRUE]
    ELSE LET rate == ParsedRate(text)
         IN  IF rate # <<>> /\ rate[1] > 0
             THEN [rate |-> rate[1], source |-> "Google Search", cached |-> TRUE]
             ELSE [rate |-> 100, source |-> "Failed", cached |-> TRUE]

\* a slip: a rate of 0 passes the test for a positive rate
RateOutcomeAcceptsZero(threw, text) ==
    IF threw \/ text = <<>> THEN [rate |-> 100, source |-> "Error", cached |-> FALSE]
    ELSE LET rate == ParsedRate(text)
         IN  IF rate # <<>> /\ rate[1] >= 0
             THEN [rate |-> rate[1], source |-> "Google Search", cached |-> TRUE]
             ELSE [rate |-> 100, source |-> "Failed", cached |-> FALSE]

\* what fetchExchangeRate returns once the lookup has settled: the lookup
\* threw, or answered with text
RateOutcome(threw, text) ==
    IF threw \/ text = <<>> THEN [rate |-> 100, source |-> "Error", cached |-> FALSE]
    ELSE LET rate == ParsedRate(text)
         IN  IF rate # <<>> /\ rate[1] > 0
             THEN [rate |-> rate[1], source |-> "Google Search", cached |-> TRUE]
             ELSE [rate |-> 100, source |-> "Failed", cached |-> FALSE]

RateInit ==
    /\ rateCache = [k \in CacheKeys |-> NoEntry]
    /\ rateCalls = [j \in RateCallIds |-> IdleCall]
    /\ lastRate = NoRate
    /\ gotExternal = [k \in CacheKeys |-> NoEntry]
    /\ lastFailed = [k \in CacheKeys |-> 0]

\* what fetchExchangeRate(currency) returns before any await, if it does:
\* the home currency's default or the rate cached today
ImmediateRate(currency) ==
    IF ToUpperCase(currency) = "TWD"
    THEN <<[rate |-> 100, source |-> "Default", readCache |-> FALSE]>>
    ELSE LET cachedRate == GetRateFromCache(ToUpperCase(currency))
         IN  IF cachedRate # <<>>
             THEN <<[rate |-> cachedRate[1], source |-> "Cache (Today)",
                     readCache |-> TRUE]>>
             ELSE <<>>

\* the record of a call for currency that returned r
Returned(currency, r) ==
    [currency |-> currency, rate |-> r.rate, source |-> r.source,
     readCache |-> r.readCache]

\* fetchExchangeRate(currency) up to its first await: the home currency and
\* a rate cached today return at once, otherwise the lookup is sent
FetchExchangeRate(j, currency) ==
    /\ rateCalls[j].pc = "idle"
    /\ LET imm == ImmediateRate(currency)
       IN  IF imm # <<>>
           THEN /\ lastRate' = Returned(currency, imm[1])
                /\ lastFailed' = IF imm[1].readCache
                                 THEN [lastFailed EXCEPT ![ToUpperCase(currency)] = 0]
                                 ELSE lastFailed
                /\ UNCHANGED rateCalls
           ELSE /\ rateCalls' = [rateCalls EXCEPT
                                   ![j] = [pc |-> "lookup", currency |-> currency]]
                /\ UNCHANGED <<lastRate, lastFailed>>
    /\ UNCHANGED <<rateCache, gotExternal, today, localToday, notRate>>

\* the lookup of call j settles and fetchExchangeRate returns to its caller
LookupReturns(j, threw, text) ==
    /\ rateCalls[j].pc = "lookup"
    /\ LET currency == rateCalls[j].currency
           key      == ToUpperCase(currency)
           out      == RateOutcome(threw, text)
       IN  /\ rateCache' = IF out.cached THEN SaveRateToCache(key, out.rate)
                                         ELSE rateCache
           /\ lastRate' = [currency |-> currency, rate |-> out.rate,
                           source |-> out.source, readCache |-> TRUE]
           /\ gotExternal' =
                 IF out.source = "Google Search"
                 THEN [gotExternal EXCEPT
                         ![key] = [kind |-> "entry", rate |-> out.rate, date |-> today,
                                   localDate |-> localToday]]
                 ELSE gotExternal
           /\ lastFailed' = [lastFailed EXCEPT
                               ![key] = IF out.source = "Google Search" THEN 0 ELSE today]
    /\ rateCalls' = [rateCalls EXCEPT ![j] = IdleCall]

\* a call made outside the form returns
LookupSettles(j, threw, text) ==
    /\ j \notin formFetches
    /\ LookupReturns(j, threw, text)
    /\ UNCHANGED <<today, localToday, notRate>>

\* midnight (UTC) passes
DayRollsOver ==
    /\ today < MaxDay
    /\ today' = today + 1
    /\ localToday' = IF localToday > today THEN localToday ELSE localToday + 1
    /\ UNCHANGED <<rateVars, notRate>>

\* local midnight passes in a browser whose time zone is ahead of UTC
\* (UTC+8 in Taipei): the local date is one ahead until midnight (UTC)
LocalDayRollsOver ==
    /\ today < MaxDay
    /\ localToday = today
    /\ localToday' = localToday + 1
    /\ UNCHANGED <<today, rateVars, notRate>>

RateNext ==
    \/ \E j \in RateCallIds, c \in Currencies : FetchExchangeRate(j, c)
    \/ \E j \in RateCallIds, t \in LookupTexts : LookupSettles(j, FALSE, t)
    \/ \E j \in RateCallIds : LookupSettles(j, TRUE, <<>>)
    \/ DayRollsOver
    \/ LocalDayRollsOver

(***************************************************************************)
(* The receipt analysis gateway (analyzeReceipt), its daily quota, and     *)
(* startAnalysis of the form.                                              *)
(***************************************************************************)
MaxAnalyses == 1

AnalysisIds == 1..MaxAnalyses

DAILY_API_LIMIT == 2

ADMIN_EMAILS == {"zx4032410@gmail.com"}

\* auth.currentUser?.email: no user or an anonymous one (<<>>), or an address
Emails == {<<>>, <<"zx4032410@gmail.com">>, <<"guest@example.com">>}

\* localStorage 'bamboo_user_api_key': null (<<>>) or the trimmed key
UserApiKeys == {<<>>, <<"user-key">>}

NoUsage == [kind |-> "none"]

IdleAnalysis == [pc |-> "idle"]

NoAnalysis == [outcome |-> "none"]

\* what the model can answer: the two receipts it reads
ReceiptJPY ==
    [storeName |-> "Lawson", date |-> 1, totalAmount |-> 1000, currency |-> "JPY",
     items |-> <<[name |-> "rice ball", originalName |-> "onigiri"]>>,
     exchangeRateToTWD |-> 22]

ReceiptTWD ==
    [storeName |-> "7-ELEVEN", date |-> 1, totalAmount |-> 7, currency |-> "TWD",
     items |-> <<[name |-> "tea", originalName |-> "tea"]>>,
     exchangeRateToTWD |-> 100]

\* how generateContent ends: it throws, or answers with response.text
ModelResponses ==
    {[threw |-> TRUE,  text |-> ""],
     [threw |-> FALSE, text |-> ""],
     [threw |-> FALSE, text |-> "{\"storeName\": \"Law"],
     [threw |-> FALSE, text |-> "json:Lawson"],
     [threw |-> FALSE, text |-> "json:7-ELEVEN"]}

\* JSON.parse(text): the value (<<v>>), or <<>> when it throws
JSONParse(text) ==
    CASE text = "json:Lawson"   -> <<ReceiptJPY>>
      [] text = "json:7-ELEVEN" -> <<ReceiptTWD>>
      [] OTHER                  -> <<>>

\* the fallback structure of the catch block (its Chinese texts are written
\* as code points)
FallbackResult ==
    [storeName |-> "U+672A U+547D U+540D U+6D88 U+8CBB", date |-> TodayString, totalAmount |-> 0,
     currency |-> "TWD",
     items |-> <<[name |-> "U+7121 U+6CD5 U+8FA8 U+8B58 U+9805 U+76EE", originalName |-> "Unknown Item"]>>,
     exchangeRateToTWD |-> 100]

\* a slip: the date of the stored record is not looked at
GetApiUsageTodayAnyDate ==
    IF apiUsage = NoUsage THEN 0 ELSE apiUsage.count

\* getApiUsageToday
GetApiUsageToday ==
    IF apiUsage = NoUsage THEN 0
    ELSE IF apiUsage.date # TodayString THEN 0
    ELSE apiUsage.count

\* the usage record incrementApiUsage stores
IncrementApiUsage == [kind |-> "usage", date |-> TodayString, count |-> GetApiUsageToday + 1]

\* a slip: the limit is reached only once it has been exceeded
HasExceededDailyLimit == GetApiUsageToday > DAILY_API_LIMIT

\* hasReachedDailyLimit
HasReachedDailyLimit == GetApiUsageToday >= DAILY_API_LIMIT

\* getRemainingApiCalls: Math.max(0, DAILY_API_LIMIT - used)
GetRemainingApiCalls == MaxOf(0, DAILY_API_LIMIT - GetApiUsageToday)

\* currentUserEmail && ADMIN_EMAILS.includes(currentUserEmail)
IsAdmin == currentUserEmail # <<>> /\ currentUserEmail[1] \in ADMIN_EMAILS

\* !userApiKey && !isAdmin: the call runs on the shared key
UsesSharedKey == userApiKey = <<>> /\ ~IsAdmin

\* a slip: a response without text is passed on instead of being caught
AnalyzeOutcomeNoTextUncaught(shared, response) ==
    IF response.threw
    THEN [result |-> FallbackResult, counted |-> FALSE]
    ELSE LET parsed == JSONParse(response.text)
         IN  [result  |-> IF parsed = <<>> THEN [FallbackResult EXCEPT !.items = <<>>]
                                           ELSE parsed[1],
              counted |-> shared]

\* a slip: incrementApiUsage runs for every key
AnalyzeOutcomeCountsEveryKey(shared, response) ==
    IF response.threw \/ response.text = ""
    THEN [result |-> FallbackResult, counted |-> FALSE]
    ELSE LET parsed == JSONParse(response.text)
         IN  [result  |-> IF parsed = <<>> THEN FallbackResult ELSE parsed[1],
              counted |-> TRUE]

\* the try block of analyzeReceipt once generateContent has settled: what
\* the call returns, and whether incrementApiUsage ran
AnalyzeOutcome(shared, response) ==
    IF response.threw \/ response.text = ""
    THEN [result |-> FallbackResult, counted |-> FALSE]
    ELSE LET parsed == JSONParse(response.text)
         IN  [result  |-> IF parsed = <<>> THEN FallbackResult ELSE parsed[1],
              counted |-> shared]

GateInit ==
    /\ apiUsage = NoUsage
    /\ userApiKey = <<>>
    /\ currentUserEmail = <<>>
    /\ analyses = [i \in AnalysisIds |-> IdleAnalysis]
    /\ lastAnalysis = NoAnalysis

\* the n lowest call slots that are free
RECURSIVE FreeSlots(_, _)
FreeSlots(n, from) ==
    IF n = 0 \/ from > MaxRateCalls THEN {}
    ELSE IF rateCalls[from].pc = "idle" THEN {from} \cup FreeSlots(n - 1, from + 1)
    ELSE FreeSlots(n, from + 1)

\* handleFileChange -> startAnalysis up to the await inside analyzeReceipt:
\* the step becomes ANALYZING; the quota check throws out of analyzeReceipt
\* and out of startAnalysis, or the image is sent to the model
StartAnalysis ==
    /\ modalOpen
    /\ step = "UPLOAD"
    /\ step' = "ANALYZING"
    /\ IF UsesSharedKey /\ HasReachedDailyLimit
       THEN /\ lastAnalysis' = [outcome |-> "threw", error |-> "DAILY_LIMIT_REACHED"]
            /\ UNCHANGED analyses
       ELSE /\ \E i \in DOMAIN analyses :
                  /\ analyses[i].pc = "idle"
                  /\ \A k \in DOMAIN analyses : k < i => analyses[k].pc # "idle"
                  /\ analyses' = [analyses EXCEPT
                                    ![i] = [pc |-> "model", shared |-> UsesSharedKey]]
            /\ UNCHANGED lastAnalysis
    /\ UNCHANGED <<modalOpen, form, built, formFetches, today, localToday, rateVars,
                   apiUsage, userApiKey, currentUserEmail, storeVars, restVars>>

\* the model call of analysis i settles: analyzeReceipt returns and
\* startAnalysis fills the form, shows the EDIT step and, for a foreign
\* currency, calls handleFetchRate; the currency effect calls it once more
\* when the modal is open and the step or the currency changed
AnalysisReturns(i, response) ==
    /\ analyses[i].pc = "model"
    /\ LET out     == AnalyzeOutcome(analyses[i].shared, response)
           result  == out.result
           filled  == [form EXCEPT !.amount = <<result.totalAmount>>,
                                   !.currency = result.currency,
                                   !.rate = result.exchangeRateToTWD,
                                   !.rateSource = "AI Estimate"]
           effect  == modalOpen /\ (step # "EDIT" \/ form.currency # result.currency)
           imm     == ImmediateRate(result.currency)
           slots   == FreeSlots(IF effect THEN 2 ELSE 1, 1)
       IN  /\ apiUsage' = IF out.counted THEN IncrementApiUsage ELSE apiUsage
           /\ lastAnalysis' = [outcome |-> "returned", result |-> result]
           /\ IF result.currency = "TWD"
              THEN /\ form' = filled
                   /\ UNCHANGED <<formFetches, rateCalls, lastRate, lastFailed>>
              ELSE IF imm # <<>>
              THEN /\ form' = [filled EXCEPT !.rate = imm[1].rate,
                                             !.rateSource = imm[1].source,
                                             !.isFetchingRate = FALSE]
                   /\ lastRate' = Returned(result.currency, imm[1])
                   /\ lastFailed' = [lastFailed EXCEPT ![ToUpperCase(result.currency)] = 0]
                   /\ UNCHANGED <<formFetches, rateCalls>>
              ELSE /\ Cardinality(slots) = (IF effect THEN 2 ELSE 1)
                   /\ form' = [filled EXCEPT !.isFetchingRate = TRUE]
                   /\ rateCalls' = [j \in RateCallIds |->
                                      IF j \in slots
                                      THEN [pc |-> "lookup", currency |-> result.currency]
                                      ELSE rateCalls[j]]
                   /\ formFetches' = formFetches \cup slots
                   /\ UNCHANGED <<lastRate, lastFailed>>
    /\ analyses' = [analyses EXCEPT ![i] = IdleAnalysis]
    /\ step' = "EDIT"
    /\ UNCHANGED <<modalOpen, built, today, localToday, rateCache, gotExternal,
                   userApiKey, currentUserEmail, storeVars, restVars>>

\* the lookup of a call made by handleFetchRate settles: the form takes the
\* rate and its source, and isFetchingRate is cleared
HandleFetchRateReturns(j, threw, text) ==
    /\ j \in formFetches
    /\ LookupReturns(j, threw, text)
    /\ form' = [form EXCEPT !.rate = lastRate'.rate,
                            !.rateSource = lastRate'.source,
                            !.isFetchingRate = FALSE]
    /\ formFetches' = formFetches \ {j}
    /\ UNCHANGED <<modalOpen, step, built, today, localToday, gateVars, storeVars, restVars>>

\* what the lookups of the form's calls answer when they answer
FormLookupText == <<"0", ".", "2", "1">>

\* the close button of the modal
CloseModal ==
    /\ modalOpen
    /\ modalOpen' = FALSE
    /\ UNCHANGED <<step, form, built, notCalc>>

\* saveUserApiKey / clearUserApiKey from the settings
SetUserApiKey ==
    /\ \E k \in UserApiKeys : k # userApiKey /\ userApiKey' = k
    /\ UNCHANGED <<calcVars, formFetches, today, localToday, rateVars,
                   apiUsage, currentUserEmail, analyses, lastAnalysis, storeVars, restVars>>

\* onAuthStateChanged: another user, or none, is signed in
AuthStateChanged ==
    /\ \E e \in Emails : e # currentUserEmail /\ currentUserEmail' = e
    /\ UNCHANGED <<calcVars, formFetches, today, localToday, rateVars,
                   apiUsage, userApiKey, analyses, lastAnalysis, storeVars, restVars>>

AnalysisNext ==
    \/ OpenModal
    \/ CloseModal
    \/ StartAnalysis
    \/ \E i \in DOMAIN analyses, r \in ModelResponses : AnalysisReturns(i, r)
    \/ \E j \in RateCallIds : HandleFetchRateReturns(j, FALSE, FormLookupText)
    \/ \E j \in RateCallIds : HandleFetchRateReturns(j, TRUE, <<>>)
    \/ SetUserApiKey
    \/ AuthStateChanged
    \/ DayRollsOver

(***************************************************************************)
(* The currency and rate fields of the form: the currency effect and the   *)
(* refresh button call handleFetchRate.                                    *)
(***************************************************************************)
\* what the currency field can hold: its onChange upper-cases the text
FormCurrencies == {ToUpperCase(c) : c \in Currencies}

\* handleFetchRate(curr) for a foreign currency, called with the form f, up
\* to the await of fetchExchangeRate, which returns at once from the cache
\* or sends a lookup
HandleFetchRate(f, curr) ==
    LET imm == ImmediateRate(curr)
    IN  IF imm # <<>>
        THEN /\ form' = [f EXCEPT !.rate = imm[1].rate,
                                  !.rateSource = imm[1].source,
                                  !.isFetchingRate = FALSE]
             /\ lastRate' = Returned(curr, imm[1])
             /\ lastFailed' = [lastFailed EXCEPT ![ToUpperCase(curr)] = 0]
             /\ UNCHANGED <<formFetches, rateCalls>>
        ELSE \E j \in FreeSlots(1, 1) :
                /\ form' = [f EXCEPT !.isFetchingRate = TRUE]
                /\ rateCalls' = [rateCalls EXCEPT
                                   ![j] = [pc |-> "lookup", currency |-> curr]]
                /\ formFetches' = formFetches \cup {j}
                /\ UNCHANGED <<lastRate, lastFailed>>

\* the currency field is edited in create mode; the effect on the currency
\* calls handleFetchRate unless the currency is TWD
SetCurrency(c) ==
    /\ modalOpen
    /\ step = "EDIT"
    /\ c # form.currency
    /\ IF c # "TWD"
       THEN HandleFetchRate([form EXCEPT !.currency = c], c)
       ELSE /\ form' = [form EXCEPT !.currency = c]
            /\ UNCHANGED <<formFetches, rateCalls, lastRate, lastFailed>>
    /\ UNCHANGED <<modalOpen, step, built, today, localToday, rateCache, gotExternal,
                   gateVars, storeVars, restVars>>

\* the refresh button next to the rate, disabled during a fetch and for TWD
RefreshRate ==
    /\ modalOpen
    /\ step = "EDIT"
    /\ ~form.isFetchingRate
    /\ form.currency # "TWD"
    /\ HandleFetchRate(form, form.currency)
    /\ UNCHANGED <<modalOpen, step, built, today, localToday, rateCache, gotExternal,
                   gateVars, storeVars, restVars>>

FormNext ==
    \/ OpenModal
    \/ ManualEntry
    \/ \E c \in FormCurrencies : SetCurrency(c)
    \/ RefreshRate
    \/ SetRate
    \/ \E j \in RateCallIds : HandleFetchRateReturns(j, FALSE, FormLookupText)
    \/ \E j \in RateCallIds : HandleFetchRateReturns(j, TRUE, <<>>)
    \/ HandleSave
    \/ CloseModal

(***************************************************************************)
(* The Firestore persistence adapter.  A document is a record of its       *)
(* fields; every other call than deleteTrip is taken whole, from the call  *)
(* to its result.                                                          *)
(***************************************************************************)
Users == {"u1", "u2"}

\* auth.currentUser: none (<<>>) or the user signed in
Identities == {<<>>} \cup {<<u>> : u \in Users}

\* the trip the user deletes, and the trips an expense can reference
TripIds == {"t1"}

ExpenseTripIds == {"t1", "t2"}

ExpenseIds == {"e1", "e2"}

\* the identifiers that uuidv4() gives to the copies of a migration
UuidTripIds == {"t3"}

UuidExpenseIds == {"e3", "e4"}

Undefined == "undefined"

\* a receipt image: small enough for a document, or over the 1 MB limit
StorableImage == "img"

OversizedImage == "big"

NoDoc == [missing |-> TRUE]

NoOp == [op |-> "none"]

IdleDelete == [pc |-> "idle"]

\* item lists, as the JSON text of the array: pairs as the form builds them,
\* the bare strings of the legacy schema, and a list of both
PairItems == "[{Kohi,Coffee}]"

LegacyItems == "[Coffee,Tea]"

\* what the upgrade makes of LegacyItems
UpgradedItems == "[{Coffee,Coffee},{Tea,Tea}]"

NoItems == "[]"

ItemTexts == {PairItems, LegacyItems, UpgradedItems, NoItems}

\* the array an item text stands for; a bare string s is [bare |-> s]
ItemList(text) ==
    CASE text = PairItems   -> <<[name |-> "Coffee", originalName |-> "Kohi"]>>
      [] text = LegacyItems -> <<[bare |-> "Coffee"], [bare |-> "Tea"]>>
      [] text = UpgradedItems -> <<[name |-> "Coffee", originalName |-> "Coffee"],
                                   [name |-> "Tea", originalName |-> "Tea"]>>
      [] OTHER              -> <<>>

\* the text of an array of items
ItemText(list) == CHOOSE text \in ItemTexts : ItemList(text) = list

\* the expenses passed to saveExpense and updateExpense (with an identifier,
\* as the form and the list build them)
ExpenseInputs ==
    {[id |-> i, tripId |-> t, items |-> PairItems, receiptImage |-> r] :
        i \in ExpenseIds, t \in ExpenseTripIds,
        r \in {Undefined, StorableImage, OversizedImage}}

TripInputs == {[id |-> t, name |-> "Tokyo"] : t \in TripIds}

Exists(d) == d # NoDoc

\* removeUndefined
RemoveUndefined(obj) ==
    [k \in {f \in DOMAIN obj : obj[f] # Undefined} |-> obj[k]]

\* a slip: { userId: uid, ...obj }, where the owner of the input wins
WithInputUserId(obj, uid) ==
    [k \in DOMAIN obj \cup {"userId"} |->
        IF k = "userId" /\ (k \notin DOMAIN obj \/ obj[k] = Undefined) THEN uid ELSE obj[k]]

\* { ...obj, userId: uid }
WithUserId(obj, uid) ==
    [k \in DOMAIN obj \cup {"userId"} |-> IF k = "userId" THEN uid ELSE obj[k]]

\* { ...expense, userId: uid, items: Array.isArray(expense.items) ?
\* expense.items : [] }
SafeExpense(expense, uid) ==
    [k \in DOMAIN expense \cup {"userId", "items"} |->
        CASE k = "userId" -> uid
          [] k = "items"  -> IF "items" \in DOMAIN expense /\ expense["items"] \in ItemTexts
                             THEN expense["items"] ELSE NoItems
          [] OTHER        -> expense[k]]

\* the write is rejected: "... exceeds the maximum allowed size"
ExceedsMaximumSize(data) ==
    "receiptImage" \in DOMAIN data /\ data["receiptImage"] = OversizedImage

\* the document updateDoc leaves: the fields of data replace or join those of
\* the stored document
UpdateDoc(stored, data) ==
    [k \in DOMAIN stored \cup DOMAIN data |->
        IF k \in DOMAIN data THEN data[k] ELSE stored[k]]

\* a slip: the children of every other trip are selected
ExpensesOfOtherTrips(tripId, uid) ==
    {i \in DOMAIN expenseDocs : /\ Exists(expenseDocs[i])
                        /\ expenseDocs[i]["tripId"] # tripId
                        /\ expenseDocs[i]["userId"] = uid}

\* the documents the query of fetchExpensesForTrip selects for user uid
ExpensesForTrip(tripId, uid) ==
    {i \in DOMAIN expenseDocs : /\ Exists(expenseDocs[i])
                        /\ expenseDocs[i]["tripId"] = tripId
                        /\ expenseDocs[i]["userId"] = uid}

StoreInit ==
    /\ currentUser = <<>>
    /\ tripDocs = [t \in TripIds \cup UuidTripIds |-> NoDoc]
    /\ expenseDocs = [i \in ExpenseIds \cup UuidExpenseIds |-> NoDoc]
    /\ delTrip = IdleDelete
    /\ lastOp = NoOp
    /\ callerChanged = FALSE
    /\ childWritten = FALSE

Failed(op, alert) == [op |-> op, outcome |-> "failed", alert |-> alert]

Succeeded(op) == [op |-> op, outcome |-> "ok", alert |-> ""]

\* a deleteTrip call is in progress and this write lands an expense of its trip
Disturbs(data) == delTrip.pc # "idle" /\ data["tripId"] = delTrip.id

\* onAuthStateChanged: the user signs in, signs out or is replaced
IdentityChanges ==
    /\ \E u \in Identities : u # currentUser /\ currentUser' = u
    /\ callerChanged' = (callerChanged \/ delTrip.pc # "idle")
    /\ UNCHANGED <<tripDocs, expenseDocs, delTrip, lastOp, childWritten, notStore>>

\* saveTrip(trip) for a trip with an identifier: setDoc
SaveTripCall(trip, delivered) ==
    /\ IF currentUser = <<>> \/ ~delivered
       THEN /\ lastOp' = Failed("saveTrip", "")
            /\ UNCHANGED tripDocs
       ELSE /\ tripDocs' = [tripDocs EXCEPT
                              ![trip.id] = RemoveUndefined(WithUserId(trip, currentUser[1]))]
            /\ lastOp' = Succeeded("saveTrip")
    /\ UNCHANGED <<currentUser, expenseDocs, delTrip, callerChanged, childWritten>>

SaveTrip(trip, delivered) == SaveTripCall(trip, delivered) /\ UNCHANGED notStore

\* saveExpense(expense) for an expense with an identifier: setDoc; a write
\* over the size limit is reported with an alert and thrown on
SaveExpenseCall(expense, delivered) ==
    /\ IF currentUser = <<>>
       THEN /\ lastOp' = Failed("saveExpense", "")
            /\ UNCHANGED <<expenseDocs, childWritten>>
       ELSE LET data == RemoveUndefined(SafeExpense(expense, currentUser[1]))
            IN  IF ExceedsMaximumSize(data)
                THEN /\ lastOp' = Failed("saveExpense", "too large")
                     /\ UNCHANGED <<expenseDocs, childWritten>>
                ELSE IF ~delivered
                THEN /\ lastOp' = Failed("saveExpense", "")
                     /\ UNCHANGED <<expenseDocs, childWritten>>
                ELSE /\ expenseDocs' = [expenseDocs EXCEPT ![expense.id] = data]
                     /\ lastOp' = Succeeded("saveExpense")
                     /\ childWritten' = (childWritten \/ Disturbs(data))
    /\ UNCHANGED <<currentUser, tripDocs, delTrip, callerChanged>>

SaveExpense(expense, delivered) == SaveExpenseCall(expense, delivered) /\ UNCHANGED notStore

\* updateExpense(updatedExpense): updateDoc, which needs the document to
\* exist; a write over the size limit is reported with an alert and thrown on
UpdateExpenseCall(expense, delivered) ==
    /\ IF currentUser = <<>>
       THEN /\ lastOp' = Failed("updateExpense", "")
            /\ UNCHANGED <<expenseDocs, childWritten>>
       ELSE LET data == RemoveUndefined(WithUserId(expense, currentUser[1]))
            IN  IF ExceedsMaximumSize(data)
                THEN /\ lastOp' = Failed("updateExpense", "too large")
                     /\ UNCHANGED <<expenseDocs, childWritten>>
                ELSE IF ~delivered \/ ~Exists(expenseDocs[expense.id])
                THEN /\ lastOp' = Failed("updateExpense", "")
                     /\ UNCHANGED <<expenseDocs, childWritten>>
                ELSE /\ expenseDocs' = [expenseDocs EXCEPT
                                          ![expense.id] = UpdateDoc(@, data)]
                     /\ lastOp' = Succeeded("updateExpense")
                     /\ childWritten' = (childWritten \/ Disturbs(data))
    /\ UNCHANGED <<currentUser, tripDocs, delTrip, callerChanged>>

UpdateExpense(expense, delivered) ==
    UpdateExpenseCall(expense, delivered) /\ UNCHANGED notStore

\* deleteExpense(id): deleteDoc
DeleteExpenseCall(id, delivered) ==
    /\ IF ~delivered
       THEN /\ lastOp' = Failed("deleteExpense", "")
            /\ UNCHANGED expenseDocs
       ELSE /\ expenseDocs' = [expenseDocs EXCEPT ![id] = NoDoc]
            /\ lastOp' = Succeeded("deleteExpense")
    /\ UNCHANGED <<currentUser, tripDocs, delTrip, callerChanged, childWritten>>

DeleteExpense(id, delivered) == DeleteExpenseCall(id, delivered) /\ UNCHANGED notStore

\* deleteTrip(id) up to its first await: the deleteDoc of the trip is sent
DeleteTripCall(id) ==
    /\ delTrip.pc = "idle"
    /\ delTrip' = [pc |-> "deleting", id |-> id]
    /\ callerChanged' = FALSE
    /\ childWritten' = FALSE
    /\ UNCHANGED <<currentUser, tripDocs, expenseDocs, lastOp>>

DeleteTrip(id) == DeleteTripCall(id) /\ UNCHANGED notStore

\* the deleteDoc of the trip settles; fetchExpensesForTrip reads the current
\* user and sends its query
TripDeleteSettles(delivered) ==
    /\ delTrip.pc = "deleting"
    /\ IF ~delivered
       THEN /\ delTrip' = IdleDelete
            /\ lastOp' = Failed("deleteTrip", "")
            /\ UNCHANGED tripDocs
       ELSE /\ tripDocs' = [tripDocs EXCEPT ![delTrip.id] = NoDoc]
            /\ IF currentUser = <<>>
               THEN /\ delTrip' = IdleDelete
                    /\ lastOp' = Failed("deleteTrip", "")
               ELSE /\ delTrip' = [pc |-> "querying", id |-> delTrip.id,
                                   uid |-> currentUser[1]]
                    /\ UNCHANGED lastOp
    /\ UNCHANGED <<currentUser, expenseDocs, callerChanged, childWritten, notStore>>

\* the query settles; the deleteDoc of every expense it found is sent, and
\* with nothing found deleteTrip returns
QuerySettles(delivered) ==
    /\ delTrip.pc = "querying"
    /\ LET found == ExpensesForTrip(delTrip.id, delTrip.uid)
       IN  IF ~delivered
           THEN /\ delTrip' = IdleDelete
                /\ lastOp' = Failed("deleteTrip", "")
           ELSE IF found = {}
           THEN /\ delTrip' = IdleDelete
                /\ lastOp' = Succeeded("deleteTrip")
           ELSE /\ delTrip' = [pc |-> "removing", id |-> delTrip.id, found |-> found]
                /\ UNCHANGED lastOp
    /\ UNCHANGED <<currentUser, tripDocs, expenseDocs, callerChanged, childWritten,
                   notStore>>

\* a slip: the deletes of the children are one batch, undone when one fails
ExpenseDeletesSettleAllOrNothing(removed) ==
    /\ delTrip.pc = "removing"
    /\ removed \subseteq delTrip.found
    /\ expenseDocs' = [i \in DOMAIN expenseDocs |->
                         IF i \in delTrip.found /\ removed = delTrip.found
                         THEN NoDoc ELSE expenseDocs[i]]
    /\ lastOp' = IF removed = delTrip.found THEN Succeeded("deleteTrip")
                                            ELSE Failed("deleteTrip", "")
    /\ delTrip' = IdleDelete
    /\ UNCHANGED <<currentUser, tripDocs, callerChanged, childWritten, notStore>>

\* Promise.all settles: the deleteDocs in removed were carried out, and
\* deleteTrip returns if that is all of them and throws otherwise
ExpenseDeletesSettle(removed) ==
    /\ delTrip.pc = "removing"
    /\ removed \subseteq delTrip.found
    /\ expenseDocs' = [i \in DOMAIN expenseDocs |->
                         IF i \in removed THEN NoDoc ELSE expenseDocs[i]]
    /\ lastOp' = IF removed = delTrip.found THEN Succeeded("deleteTrip")
                                            ELSE Failed("deleteTrip", "")
    /\ delTrip' = IdleDelete
    /\ UNCHANGED <<currentUser, tripDocs, callerChanged, childWritten, notStore>>

\* the occurrence dates of the expenses, as ISO texts
Dates == {"2024-01-01", "2024-01-02"}

\* new Date(date).getTime(), counted in days
GetTime(date) ==
    CASE date = "2024-01-01" -> 1
      [] date = "2024-01-02" -> 2

\* the order in which a query returns documents: by document identifier
IdOrder == <<"e1", "e2", "e3", "e4">>

TripOrder == <<"t1", "t3">>

\* the documents of ids, in the order of the query
RECURSIVE InIdOrder(_, _)
InIdOrder(ids, k) ==
    IF k > Len(IdOrder) THEN <<>>
    ELSE (IF IdOrder[k] \in ids THEN <<expenseDocs[IdOrder[k]]>> ELSE <<>>)
         \o InIdOrder(ids, k + 1)

\* a slip: the comparator is a.date - b.date, oldest first
CompareOldestFirst(a, b) == GetTime(a["date"]) - GetTime(b["date"])

\* (a, b) => new Date(b.date).getTime() - new Date(a.date).getTime()
CompareDates(a, b) == GetTime(b["date"]) - GetTime(a["date"])

\* x placed behind every element that the comparator does not put after it
RECURSIVE InsertNewestFirst(_, _)
InsertNewestFirst(sorted, x) ==
    IF sorted = <<>> THEN <<x>>
    ELSE IF CompareDates(Head(sorted), x) <= 0
         THEN <<Head(sorted)>> \o InsertNewestFirst(Tail(sorted), x)
         ELSE <<x>> \o sorted

\* expenses.sort(...): a stable sort, newest first
RECURSIVE SortNewestFirst(_)
SortNewestFirst(list) ==
    IF list = <<>> THEN <<>>
    ELSE InsertNewestFirst(SortNewestFirst(SubSeq(list, 1, Len(list) - 1)),
                           list[Len(list)])

\* the expenses with every field, unlike those of ExpenseInputs; the owner
\* field of the input is absent or names u2
DatedExpenseInputs ==
    {[id |-> i, tripId |-> t, date |-> d, items |-> PairItems, userId |-> o,
      receiptImage |-> Undefined] :
        i \in ExpenseIds, t \in ExpenseTripIds, d \in Dates, o \in {Undefined, "u2"}}
    \cup {[id |-> "e1", tripId |-> "t1", date |-> "2024-01-01", items |-> LegacyItems,
           userId |-> Undefined, receiptImage |-> Undefined]}

OwnedTripInputs ==
    {[id |-> t, name |-> "Tokyo", userId |-> o] : t \in TripIds, o \in {Undefined, "u2"}}

\* fetchTrips
FetchTrips(delivered) ==
    /\ IF currentUser = <<>> \/ ~delivered
       THEN lastOp' = Failed("fetchTrips", "")
       ELSE lastOp' = [op |-> "fetchTrips", outcome |-> "ok", alert |-> "",
                       result |-> {tripDocs[t] : t \in {x \in DOMAIN tripDocs :
                                      /\ Exists(tripDocs[x])
                                      /\ tripDocs[x]["userId"] = currentUser[1]}}]
    /\ UNCHANGED <<currentUser, tripDocs, expenseDocs, delTrip, callerChanged,
                   childWritten, notStore>>

\* fetchExpensesForTrip(tripId)
FetchExpensesForTrip(tripId, delivered) ==
    /\ IF currentUser = <<>> \/ ~delivered
       THEN lastOp' = Failed("fetchExpensesForTrip", "")
       ELSE lastOp' = [op |-> "fetchExpensesForTrip", outcome |-> "ok", alert |-> "",
                       tripId |-> tripId,
                       result |-> SortNewestFirst(
                                     InIdOrder(ExpensesForTrip(tripId, currentUser[1]), 1))]
    /\ UNCHANGED <<currentUser, tripDocs, expenseDocs, delTrip, callerChanged,
                   childWritten, notStore>>

\* the adapter's calls on expenses with every field
AdapterNext ==
    \/ IdentityChanges
    \/ \E t \in OwnedTripInputs, d \in BOOLEAN : SaveTrip(t, d)
    \/ \E e \in DatedExpenseInputs, d \in BOOLEAN : SaveExpense(e, d)
    \/ \E e \in DatedExpenseInputs, d \in BOOLEAN : UpdateExpense(e, d)
    \/ \E i \in ExpenseIds, d \in BOOLEAN : DeleteExpense(i, d)
    \/ \E d \in BOOLEAN : FetchTrips(d)
    \/ \E t \in ExpenseTripIds, d \in BOOLEAN : FetchExpensesForTrip(t, d)

StoreNext ==
    \/ IdentityChanges
    \/ \E t \in TripInputs, d \in BOOLEAN : SaveTrip(t, d)
    \/ \E e \in ExpenseInputs, d \in BOOLEAN : SaveExpense(e, d)
    \/ \E e \in ExpenseInputs, d \in BOOLEAN : UpdateExpense(e, d)
    \/ \E i \in ExpenseIds, d \in BOOLEAN : DeleteExpense(i, d)
    \/ \E t \in TripIds : DeleteTrip(t)
    \/ \E d \in BOOLEAN : TripDeleteSettles(d)
    \/ \E d \in BOOLEAN : QuerySettles(d)
    \/ \E r \in SUBSET ExpenseIds : ExpenseDeletesSettle(r)

(***************************************************************************)
(* The adapter over the browser's local storage.                           *)
(***************************************************************************)
MaxLocalRecords == 2

\* what the versions before the change of Expense.items from string[] to
\* ExpenseItem[] left under trippy_expenses
LegacyExpenses ==
    {[id |-> i, tripId |-> "t1", items |-> LegacyItems, receiptImage |-> Undefined] :
        i \in ExpenseIds}
    \cup {[id |-> "e1", tripId |-> "t1", receiptImage |-> Undefined]}

LocalExpenseInputs == {e \in ExpenseInputs : e.receiptImage # OversizedImage}

NoLocalOp == [op |-> "none"]

\* e.items.map(itemStr => ({name: itemStr, originalName: itemStr}))
UpgradeItems(list) ==
    [j \in 1..Len(list) |-> [name |-> list[j].bare, originalName |-> list[j].bare]]

\* migrateExpenses, for one expense
MigrateExpense(e) ==
    IF "items" \notin DOMAIN e
    THEN [k \in DOMAIN e \cup {"items"} |-> IF k = "items" THEN NoItems ELSE e[k]]
    ELSE IF /\ Len(ItemList(e["items"])) > 0
            /\ "bare" \in DOMAIN ItemList(e["items"])[1]
         THEN [e EXCEPT !["items"] = ItemText(UpgradeItems(ItemList(e["items"])))]
         ELSE e

\* migrateExpenses
MigrateExpenses(list) == [j \in 1..Len(list) |-> MigrateExpense(list[j])]

Filter(list, Keep(_)) == SelectSeq(list, Keep)

LocalInit ==
    /\ localTrips = <<>>
    /\ localExpenses = <<>>
    /\ localOp = NoLocalOp

\* an older version of the application stored an expense, before this one
\* was first used
OlderVersionSaved(e) ==
    /\ localOp = NoLocalOp
    /\ Len(localExpenses) < MaxLocalRecords
    /\ localExpenses' = Append(localExpenses, e)
    /\ UNCHANGED <<localTrips, localOp, notLocal>>

\* getTrips
GetTrips ==
    /\ localOp' = [op |-> "getTrips", result |-> localTrips]
    /\ UNCHANGED <<localTrips, localExpenses, notLocal>>

\* getAllExpenses
GetAllExpenses ==
    /\ localOp' = [op |-> "getAllExpenses", result |-> MigrateExpenses(localExpenses)]
    /\ UNCHANGED <<localTrips, localExpenses, notLocal>>

\* getExpensesForTrip(tripId)
GetExpensesForTrip(tripId) ==
    /\ LET OfTrip(e) == e["tripId"] = tripId
       IN  localOp' = [op |-> "getExpensesForTrip",
                       result |-> Filter(MigrateExpenses(localExpenses), OfTrip)]
    /\ UNCHANGED <<localTrips, localExpenses, notLocal>>

\* saveTrip(trip): push and setItem, which throws when the quota is used up
LocalSaveTrip(trip, full) ==
    /\ Len(localTrips) < MaxLocalRecords
    /\ IF full
       THEN /\ localOp' = [op |-> "saveTrip", alert |-> "full"]
            /\ UNCHANGED localTrips
       ELSE /\ localTrips' = Append(localTrips, trip)
            /\ localOp' = [op |-> "saveTrip", alert |-> ""]
    /\ UNCHANGED <<localExpenses, notLocal>>

\* saveExpense(expense): push on getAllExpenses() and setItem; when the
\* quota is used up, once more without the image
LocalSaveExpense(expense, full, fullAgain) ==
    /\ Len(localExpenses) < MaxLocalRecords
    /\ LET allExpenses == MigrateExpenses(localExpenses)
           expenseNoImg == [expense EXCEPT !["receiptImage"] = Undefined]
       IN  IF ~full
           THEN /\ localExpenses' = Append(allExpenses, expense)
                /\ localOp' = [op |-> "saveExpense", alert |-> ""]
           ELSE IF ~fullAgain
           THEN /\ localExpenses' = Append(allExpenses, expenseNoImg)
                /\ localOp' = [op |-> "saveExpense", alert |-> "saved without image"]
           ELSE /\ UNCHANGED localExpenses
                /\ localOp' = [op |-> "saveExpense", alert |-> "not saved"]
    /\ UNCHANGED <<localTrips, notLocal>>

\* updateExpense(updatedExpense): map over getAllExpenses() and setItem; when
\* the quota is used up and there is an image, once more without it
LocalUpdateExpense(updatedExpense, full, fullAgain) ==
    /\ LET allExpenses == MigrateExpenses(localExpenses)
           expenseNoImg == [updatedExpense EXCEPT !["receiptImage"] = Undefined]
           Replaced(by) == [j \in 1..Len(allExpenses) |->
                               IF allExpenses[j]["id"] = by["id"] THEN by
                                                                  ELSE allExpenses[j]]
       IN  IF ~full
           THEN /\ localExpenses' = Replaced(updatedExpense)
                /\ localOp' = [op |-> "updateExpense", alert |-> ""]
           ELSE IF updatedExpense["receiptImage"] # Undefined /\ ~fullAgain
           THEN /\ localExpenses' = Replaced(expenseNoImg)
                /\ localOp' = [op |-> "updateExpense", alert |-> "updated without image"]
           ELSE /\ UNCHANGED localExpenses
                /\ localOp' = [op |-> "updateExpense", alert |-> "not updated"]
    /\ UNCHANGED <<localTrips, notLocal>>

\* deleteExpense(id): filter over getAllExpenses() and setItem
LocalDeleteExpense(id) ==
    /\ LET Others(e) == e["id"] # id
       IN  localExpenses' = Filter(MigrateExpenses(localExpenses), Others)
    /\ localOp' = [op |-> "deleteExpense", alert |-> ""]
    /\ UNCHANGED <<localTrips, notLocal>>

\* deleteTrip(id): the trips without it, the migrated expenses without its
\* expenses
LocalDeleteTrip(id) ==
    /\ LET OtherTrips(t) == t["id"] # id
           OfOtherTrips(e) == e["tripId"] # id
       IN  /\ localTrips' = Filter(localTrips, OtherTrips)
           /\ localExpenses' = Filter(MigrateExpenses(localExpenses), OfOtherTrips)
    /\ localOp' = [op |-> "deleteTrip", alert |-> ""]
    /\ UNCHANGED notLocal

LocalNext ==
    \/ \E e \in LegacyExpenses : OlderVersionSaved(e)
    \/ GetTrips
    \/ GetAllExpenses
    \/ \E t \in ExpenseTripIds : GetExpensesForTrip(t)
    \/ \E t \in TripInputs, f \in BOOLEAN : LocalSaveTrip(t, f)
    \/ \E e \in LocalExpenseInputs, f, g \in BOOLEAN : LocalSaveExpense(e, f, g)
    \/ \E e \in LocalExpenseInputs, f, g \in BOOLEAN : LocalUpdateExpense(e, f, g)
    \/ \E i \in ExpenseIds : LocalDeleteExpense(i)
    \/ \E t \in TripIds : LocalDeleteTrip(t)

(***************************************************************************)
(* The view controller: the trips and expenses it shows, and its handlers  *)
(* over the remote store.  A handler runs up to its awaited adapter call   *)
(* in one step and from the call's return in another.                      *)
(***************************************************************************)
\* no handler is awaiting; last is the handler that returned last
Idle(last, failed, error) ==
    [handler |-> "none", last |-> last, failed |-> failed, error |-> error]

TripNames == {"", "Tokyo"}

\* the expenses the form hands over for a new entry
NewExpenses ==
    {[id |-> i, tripId |-> "t1", date |-> d, items |-> PairItems, isRepaid |-> "false",
      receiptImage |-> Undefined] : i \in ExpenseIds, d \in Dates}

\* the identifiers of the records of a list
IdsOf(list) == {list[j]["id"] : j \in 1..Len(list)}

\* uuidv4(): an identifier that no record has
FreshIds(ids, list, docs) == {i \in ids : i \notin IdsOf(list) /\ ~Exists(docs[i])}

\* a slip: the updated record is not put into the list
ReplaceKeepsOld(prev, updated) == prev

\* prev.map(e => e.id === updated.id ? updated : e)
Replace(prev, updated) ==
    [j \in 1..Len(prev) |-> IF prev[j]["id"] = updated["id"] THEN updated ELSE prev[j]]

\* prev.filter(x => x.id !== id)
Without(prev, id) == LET Others(x) == x["id"] # id IN Filter(prev, Others)

\* a slip: the list is set before the awaited call, whatever its outcome
SetOptimistically(ok, prev, next) == next

\* the list after the try block: the set call is behind the await, so that
\* a call that throws skips it
SetAfterAwait(ok, prev, next) == IF ok THEN next ELSE prev

\* the handler leaves the lists it started with in the record of its call
Awaiting(handler, arg) ==
    [handler |-> handler, arg |-> arg, ok |-> lastOp'.outcome = "ok",
     before |-> <<trips, expenses>>]

AppInit ==
    /\ trips = <<>>
    /\ expenses = <<>>
    /\ awaiting = Idle("none", FALSE, "")

\* handleCreateTrip up to the await of saveTrip
HandleCreateTrip(newTripName, endBeforeStart, delivered) ==
    /\ awaiting.handler = "none"
    /\ IF newTripName = ""
       THEN /\ awaiting' = Idle("handleCreateTrip", FALSE, "no name")
            /\ UNCHANGED <<trips, expenses, storeVars>>
       ELSE IF currentUser = <<>>
       THEN UNCHANGED <<trips, expenses, awaiting, storeVars>>
       ELSE IF endBeforeStart
       THEN /\ awaiting' = Idle("handleCreateTrip", FALSE, "end before start")
            /\ UNCHANGED <<trips, expenses, storeVars>>
       ELSE \E id \in FreshIds(TripIds, trips, tripDocs) :
               LET trip == [id |-> id, userId |-> currentUser[1], name |-> newTripName]
               IN  /\ SaveTripCall(trip, delivered)
                   /\ awaiting' = Awaiting("handleCreateTrip", trip)
                   /\ UNCHANGED <<trips, expenses>>
    /\ UNCHANGED notApp

\* handleCreateTrip from the return of saveTrip
HandleCreateTripReturns ==
    /\ awaiting.handler = "handleCreateTrip"
    /\ trips' = SetAfterAwait(awaiting.ok, trips, Append(trips, awaiting.arg))
    /\ awaiting' = Idle("handleCreateTrip", ~awaiting.ok,
                        IF awaiting.ok THEN "" ELSE "failed")
    /\ UNCHANGED <<expenses, storeVars, notApp>>

\* confirmDeleteTrip, for the trip chosen in the list, up to the await of
\* deleteTrip
ConfirmDeleteTrip(tripToDelete) ==
    /\ awaiting.handler = "none"
    /\ tripToDelete \in IdsOf(trips)
    /\ DeleteTripCall(tripToDelete)
    /\ awaiting' = [handler |-> "confirmDeleteTrip", arg |-> tripToDelete,
                    before |-> <<trips, expenses>>]
    /\ UNCHANGED <<trips, expenses, notApp>>

\* confirmDeleteTrip from the return of deleteTrip
ConfirmDeleteTripReturns ==
    /\ awaiting.handler = "confirmDeleteTrip"
    /\ delTrip.pc = "idle"
    /\ trips' = SetAfterAwait(lastOp.outcome = "ok", trips, Without(trips, awaiting.arg))
    /\ awaiting' = Idle("confirmDeleteTrip", lastOp.outcome # "ok", "")
    /\ UNCHANGED <<expenses, storeVars, notApp>>

\* handleSaveExpense with no entry being edited, up to the await of
\* saveExpense
HandleSaveNewExpense(expense, delivered) ==
    /\ awaiting.handler = "none"
    /\ expense["id"] \in FreshIds(ExpenseIds, expenses, expenseDocs)
    /\ SaveExpenseCall(expense, delivered)
    /\ awaiting' = Awaiting("handleSaveExpense", expense)
    /\ UNCHANGED <<trips, expenses, notApp>>

\* handleSaveExpense for the edited entry k, with another date, up to the
\* await of updateExpense
HandleSaveEditedExpense(k, date, delivered) ==
    /\ awaiting.handler = "none"
    /\ k \in 1..Len(expenses)
    /\ LET expense == [expenses[k] EXCEPT !["date"] = date]
       IN  /\ UpdateExpenseCall(expense, delivered)
           /\ awaiting' = Awaiting("handleSaveExpense (edit)", expense)
    /\ UNCHANGED <<trips, expenses, notApp>>

\* handleSaveExpense from the return of saveExpense or updateExpense: the
\* new entry in front or the edited one replaced, then the re-sort
HandleSaveExpenseReturns ==
    /\ awaiting.handler \in {"handleSaveExpense", "handleSaveExpense (edit)"}
    /\ expenses' = SetAfterAwait(awaiting.ok, expenses,
                      SortNewestFirst(IF awaiting.handler = "handleSaveExpense"
                                      THEN <<awaiting.arg>> \o expenses
                                      ELSE Replace(expenses, awaiting.arg)))
    /\ awaiting' = Idle(awaiting.handler, ~awaiting.ok, "")
    /\ UNCHANGED <<trips, storeVars, notApp>>

\* handleDeleteExpense, confirmed, up to the await of deleteExpense
HandleDeleteExpense(id, delivered) ==
    /\ awaiting.handler = "none"
    /\ id \in IdsOf(expenses)
    /\ DeleteExpenseCall(id, delivered)
    /\ awaiting' = Awaiting("handleDeleteExpense", id)
    /\ UNCHANGED <<trips, expenses, notApp>>

\* handleDeleteExpense from the return of deleteExpense
HandleDeleteExpenseReturns ==
    /\ awaiting.handler = "handleDeleteExpense"
    /\ expenses' = SetAfterAwait(awaiting.ok, expenses, Without(expenses, awaiting.arg))
    /\ awaiting' = Idle("handleDeleteExpense", ~awaiting.ok, "")
    /\ UNCHANGED <<trips, storeVars, notApp>>

\* toggleRepayment of the entry k up to the await of updateExpense
ToggleRepayment(k, delivered) ==
    /\ awaiting.handler = "none"
    /\ k \in 1..Len(expenses)
    /\ LET updated == [expenses[k] EXCEPT
                          !["isRepaid"] = IF @ = "true" THEN "false" ELSE "true"]
       IN  /\ UpdateExpenseCall(updated, delivered)
           /\ awaiting' = Awaiting("toggleRepayment", updated)
    /\ UNCHANGED <<trips, expenses, notApp>>

\* toggleRepayment from the return of updateExpense
ToggleRepaymentReturns ==
    /\ awaiting.handler = "toggleRepayment"
    /\ expenses' = SetAfterAwait(awaiting.ok, expenses, Replace(expenses, awaiting.arg))
    /\ awaiting' = Idle("toggleRepayment", ~awaiting.ok, "")
    /\ UNCHANGED <<trips, storeVars, notApp>>

AppNext ==
    \/ IdentityChanges
    \/ \E n \in TripNames, b, d \in BOOLEAN : HandleCreateTrip(n, b, d)
    \/ HandleCreateTripReturns
    \/ \E t \in TripIds : ConfirmDeleteTrip(t)
    \/ \E d \in BOOLEAN : TripDeleteSettles(d)
    \/ \E d \in BOOLEAN : QuerySettles(d)
    \/ \E r \in SUBSET ExpenseIds : ExpenseDeletesSettle(r)
    \/ ConfirmDeleteTripReturns
    \/ \E e \in NewExpenses, d \in BOOLEAN : HandleSaveNewExpense(e, d)
    \/ \E k \in 1..Cardinality(ExpenseIds), date \in Dates, d \in BOOLEAN :
          HandleSaveEditedExpense(k, date, d)
    \/ HandleSaveExpenseReturns
    \/ \E i \in ExpenseIds, d \in BOOLEAN : HandleDeleteExpense(i, d)
    \/ HandleDeleteExpenseReturns
    \/ \E k \in 1..Cardinality(ExpenseIds), d \in BOOLEAN : ToggleRepayment(k, d)
    \/ ToggleRepaymentReturns

\* the actions on the expenses of the open trip alone
ListNext ==
    \/ IdentityChanges
    \/ \E e \in NewExpenses, d \in BOOLEAN : HandleSaveNewExpense(e, d)
    \/ \E k \in 1..Cardinality(ExpenseIds), date \in Dates, d \in BOOLEAN :
          HandleSaveEditedExpense(k, date, d)
    \/ HandleSaveExpenseReturns
    \/ \E i \in ExpenseIds, d \in BOOLEAN : HandleDeleteExpense(i, d)
    \/ HandleDeleteExpenseReturns
    \/ \E k \in 1..Cardinality(ExpenseIds), d \in BOOLEAN : ToggleRepayment(k, d)
    \/ ToggleRepaymentReturns

(***************************************************************************)
(* handleLinkGoogle: the guest account is linked to a Google account, and  *)
(* when that account belongs to another user already, the guest's data is  *)
(* copied to it.                                                           *)
(***************************************************************************)
StoreNameOf(id) == IF id = "e1" THEN "Lawson" ELSE "7-ELEVEN"

\* the expenses the guest saves before linking
GuestExpenseInputs ==
    {[id |-> i, tripId |-> t, storeName |-> StoreNameOf(i), date |-> d,
      items |-> PairItems, receiptImage |-> Undefined] :
        i \in ExpenseIds, t \in TripIds, d \in Dates}

\* the documents of a collection that this identity owns
OwnedBy(docs, uid) == {i \in DOMAIN docs : Exists(docs[i]) /\ docs[i]["userId"] = uid}

\* the identity of the Google account, another user than the guest
GoogleUser(guest) == CHOOSE u \in Users : u # guest

\* the trips of the current user in the order of the query
TripList(uid) ==
    LET Owned(t) == Exists(t) /\ t["userId"] = uid
    IN  Filter([k \in 1..Len(TripOrder) |-> tripDocs[TripOrder[k]]], Owned)

\* uuidv4(): an identifier that no document has
Uuids(ids, docs) == {i \in ids : ~Exists(docs[i])}

\* a slip: the copy keeps the tripId of the original
KeepTripId(expense, newTripId) == expense["tripId"]

\* tripId: newTripId
NewTripId(expense, newTripId) == newTripId

\* { ...record, id: uuidv4(), userId: googleUser.uid }
Migrated(record, id, uid) ==
    [k \in DOMAIN record \cup {"userId"} |->
        CASE k = "id"     -> id
          [] k = "userId" -> uid
          [] OTHER        -> record[k]]

LinkInit == link = [pc |-> "idle"]

LinkFailed == [pc |-> "failed"]

\* handleLinkGoogle up to the return of linkWithPopup and, when the Google
\* account is in use, to the await of fetchTrips
HandleLinkGoogle(outcome) ==
    /\ link.pc = "idle"
    /\ delTrip.pc = "idle"
    /\ currentUser # <<>>
    /\ link' = CASE outcome = "linked" -> [pc |-> "linked"]
                 [] outcome = "credential-already-in-use" ->
                        [pc |-> "fetchTrips", guest |-> currentUser[1]]
                 [] OTHER -> LinkFailed
    /\ UNCHANGED <<storeVars, notLink>>

\* fetchTrips returns
GuestTripsFetched(delivered) ==
    /\ link.pc = "fetchTrips"
    /\ link' = IF ~delivered THEN LinkFailed
               ELSE [pc |-> "fetchExpenses", guest |-> link.guest,
                     guestTrips |-> TripList(currentUser[1]), k |-> 1,
                     allGuestExpenses |-> <<>>]
    /\ UNCHANGED <<storeVars, notLink>>

\* fetchExpensesForTrip returns for the next trip, or there is none left and
\* signInWithCredential returns
GuestExpensesFetched(delivered) ==
    /\ link.pc = "fetchExpenses"
    /\ IF ~delivered
       THEN link' = LinkFailed /\ UNCHANGED storeVars
       ELSE IF link.k <= Len(link.guestTrips)
       THEN /\ link' = [link EXCEPT
                          !.k = @ + 1,
                          !.allGuestExpenses = @ \o SortNewestFirst(InIdOrder(
                              ExpensesForTrip(link.guestTrips[link.k]["id"],
                                              currentUser[1]), 1))]
            /\ UNCHANGED storeVars
       ELSE /\ link' = [pc |-> "saveTrips", guest |-> link.guest,
                        guestTrips |-> link.guestTrips,
                        allGuestExpenses |-> link.allGuestExpenses,
                        k |-> 1, tripIdMap |-> {}]
            /\ currentUser' = <<GoogleUser(link.guest)>>
            /\ UNCHANGED <<tripDocs, expenseDocs, delTrip, lastOp, callerChanged,
                           childWritten>>
    /\ UNCHANGED notLink

\* saveTrip returns for the copy of the next trip
GuestTripMigrated(delivered) ==
    /\ link.pc = "saveTrips"
    /\ link.k <= Len(link.guestTrips)
    /\ \E newTripId \in Uuids(UuidTripIds, tripDocs) :
          LET trip == link.guestTrips[link.k]
          IN  /\ SaveTripCall(Migrated(trip, newTripId, currentUser[1]), delivered)
              /\ link' = IF lastOp'.outcome # "ok" THEN LinkFailed
                         ELSE [link EXCEPT !.k = @ + 1,
                                          !.tripIdMap = @ \cup {<<trip["id"], newTripId>>}]
    /\ UNCHANGED notLink

\* saveExpense returns for the copy of the next expense, or there is none
\* left and the migration is reported as done
GuestExpenseMigrated(delivered) ==
    /\ link.pc \in {"saveTrips", "saveExpenses"}
    /\ link.pc = "saveTrips" => link.k > Len(link.guestTrips)
    /\ LET j == IF link.pc = "saveTrips" THEN 1 ELSE link.k
           mapped == IF j > Len(link.allGuestExpenses) THEN {}
                     ELSE {p \in link.tripIdMap : p[1] = link.allGuestExpenses[j]["tripId"]}
           next == [pc |-> "saveExpenses", guest |-> link.guest,
                    allGuestExpenses |-> link.allGuestExpenses,
                    k |-> j + 1, tripIdMap |-> link.tripIdMap]
       IN  IF j > Len(link.allGuestExpenses)
           THEN link' = [pc |-> "done", guest |-> link.guest] /\ UNCHANGED storeVars
           ELSE IF mapped = {}
           THEN link' = next /\ UNCHANGED storeVars
           ELSE \E id \in Uuids(UuidExpenseIds, expenseDocs), p \in mapped :
                   LET expense == link.allGuestExpenses[j]
                       copy == [Migrated(expense, id, currentUser[1]) EXCEPT
                                   !["tripId"] = NewTripId(expense, p[2])]
                   IN  /\ SaveExpenseCall(copy, delivered)
                       /\ link' = IF lastOp'.outcome # "ok" THEN LinkFailed ELSE next
    /\ UNCHANGED notLink

LinkNext ==
    \* the guest signs in
    \/ link.pc = "idle" /\ currentUser = <<>> /\ IdentityChanges
    \/ \E t \in TripInputs, d \in BOOLEAN : link.pc = "idle" /\ SaveTrip(t, d)
    \/ \E e \in GuestExpenseInputs, d \in BOOLEAN :
          \* the form is opened in the view of a trip of the user
          /\ link.pc = "idle"
          /\ currentUser # <<>>
          /\ e.tripId \in OwnedBy(tripDocs, currentUser[1])
          /\ SaveExpense(e, d)
    \/ \E t \in TripIds : link.pc = "idle" /\ DeleteTrip(t)
    \/ \E d \in BOOLEAN : link.pc = "idle" /\ TripDeleteSettles(d)
    \/ \E d \in BOOLEAN : link.pc = "idle" /\ QuerySettles(d)
    \/ \E r \in SUBSET ExpenseIds : link.pc = "idle" /\ ExpenseDeletesSettle(r)
    \/ \E o \in {"linked", "credential-already-in-use", "auth/popup-closed-by-user"} :
          HandleLinkGoogle(o)
    \/ \E d \in BOOLEAN : GuestTripsFetched(d)
    \/ \E d \in BOOLEAN : GuestExpensesFetched(d)
    \/ \E d \in BOOLEAN : GuestTripMigrated(d)
    \/ \E d \in BOOLEAN : GuestExpenseMigrated(d)

(***************************************************************************)
(* The auth listener of App (onAuthStateChanged), the welcome screen and   *)
(* its login handlers, and handleSignOut.                                  *)
(***************************************************************************)
\* bamboo_login_preference: null (<<>>) or the type of the last login
LoginPreferences == {<<>>, <<"anonymous">>, <<"google">>}

AuthInit ==
    login = [pc |-> "launching", pref |-> <<>>, showWelcome |-> FALSE, loads |-> {}]

\* what the new actions leave alone
notSession ==
    <<calcVars, formFetches, today, localToday, rateVars, gateVars, localVars, link,
      tripDocs, expenseDocs, delTrip, lastOp, callerChanged, childWritten,
      expenses, awaiting, editor>>

\* a slip: the welcome screen is shown whatever the stored preference
ListenerWithoutUserAlwaysWelcomes(l) == [l EXCEPT !.pc = "idle", !.showWelcome = TRUE]

\* the listener's branch for no user: with the preference 'anonymous' it
\* awaits signInAnonymously, otherwise it shows the welcome screen
ListenerWithoutUser(l) ==
    IF l.pref = <<"anonymous">>
    THEN [l EXCEPT !.pc = "autoSignIn"]
    ELSE [l EXCEPT !.pc = "idle", !.showWelcome = TRUE]

\* the listener's branch for a user, up to the await of fetchTrips
ListenerWithUser(l, uid) ==
    [l EXCEPT !.pc = "idle", !.showWelcome = FALSE, !.loads = @ \cup {uid}]

\* the page is opened: the listener reports the identity the auth library
\* has kept, the component's state being new
Launch ==
    /\ login.pc \in {"launching", "idle"}
    /\ awaiting.handler = "none"
    /\ trips' = <<>>
    /\ login' = LET new == [login EXCEPT !.showWelcome = FALSE, !.loads = {}]
                IN  IF currentUser = <<>> THEN ListenerWithoutUser(new)
                    ELSE ListenerWithUser(new, currentUser[1])
    /\ UNCHANGED <<currentUser, view, notSession>>

\* the signInAnonymously of the listener settles: a new anonymous user is
\* reported to the listener, or the catch block shows the welcome screen
AutoSignInSettles(ok, uid) ==
    /\ login.pc = "autoSignIn"
    /\ IF ok
       THEN /\ currentUser' = <<uid>>
            /\ login' = ListenerWithUser(login, uid)
       ELSE /\ login' = [login EXCEPT !.pc = "idle", !.showWelcome = TRUE]
            /\ UNCHANGED currentUser
    /\ UNCHANGED <<trips, view, notSession>>

\* handleAnonymousLogin / handleGoogleLogin, picked on the welcome screen:
\* the sign-in, the listener's report of the user, and saveLoginPreference,
\* which can fail to store
HandleLogin(type, ok, uid, stored) ==
    /\ login.pc = "idle"
    /\ login.showWelcome
    /\ currentUser = <<>>
    /\ IF ok
       THEN /\ currentUser' = <<uid>>
            /\ login' = [ListenerWithUser(login, uid) EXCEPT
                           !.pref = IF stored THEN <<type>> ELSE @]
       ELSE UNCHANGED <<currentUser, login>>
    /\ UNCHANGED <<trips, view, notSession>>

\* handleSignOut, confirmed: signOut, and the listener's report of no user
HandleSignOut ==
    /\ login.pc = "idle"
    /\ currentUser # <<>>
    /\ awaiting.handler = "none"
    /\ currentUser' = <<>>
    /\ login' = ListenerWithoutUser(login)
    /\ UNCHANGED <<trips, view, notSession>>

\* the fetchTrips of the listener's call for uid settles: the trips of uid
\* are set, or the catch block leaves the list as it is
TripsLoadSettles(uid, delivered) ==
    /\ uid \in login.loads
    /\ login' = [login EXCEPT !.loads = @ \ {uid}]
    /\ trips' = IF delivered THEN TripList(uid) ELSE trips
    /\ UNCHANGED <<currentUser, view, notSession>>

AuthNext ==
    \/ Launch
    \/ \E ok \in BOOLEAN, u \in Users : AutoSignInSettles(ok, u)
    \/ \E ok, stored \in BOOLEAN, u \in Users : HandleLogin("anonymous", ok, u, stored)
    \/ \E ok, stored \in BOOLEAN, u \in Users : HandleLogin("google", ok, u, stored)
    \/ HandleSignOut
    \/ \E u \in Users, d \in BOOLEAN : TripsLoadSettles(u, d)
    \/ \E n \in TripNames, b, d \in BOOLEAN : HandleCreateTrip(n, b, d)
    \/ HandleCreateTripReturns

(***************************************************************************)
(* The open trip: openTrip sets activeTripId, and the effect that depends  *)
(* on it starts loadExpenses, which awaits fetchExpensesForTrip and sets   *)
(* the expense list from its result.                                       *)
(***************************************************************************)
\* how many loadExpenses calls can await their fetch at a time
MaxLoads == 2

\* the trips on the home screen
ViewTripIds == {"t1", "t3"}

\* the expenses the form hands over for a new entry of trip tripId
NewExpensesOf(tripId) ==
    {[id |-> i, tripId |-> tripId, date |-> d, items |-> PairItems, isRepaid |-> "false",
      receiptImage |-> Undefined] : i \in ExpenseIds, d \in Dates}

\* the loadExpenses calls that await their fetch
LoadIds == {l.n : l \in view.loads}

\* openTrip(id) and the run of the effect for the new activeTripId:
\* fetchExpensesForTrip reads the caller's identity before its await
OpenTripLoads(id, n) ==
    [activeTripId |-> <<id>>,
     loads |-> view.loads \cup {[n |-> n, tripId |-> id, uid |-> currentUser[1]]}]

\* openTrip(id) for a trip of the home screen other than the one opened
\* last; the form is closed
OpenTrip(id) ==
    /\ awaiting.handler = "none"
    /\ currentUser # <<>>
    /\ id \in IdsOf(trips)
    /\ view.activeTripId # <<id>>
    /\ \E n \in (1..MaxLoads) \ LoadIds : view' = OpenTripLoads(id, n)
    /\ UNCHANGED <<currentUser, trips, login, notSession>>

\* the fetchExpensesForTrip of a loadExpenses call settles: setExpenses
\* with its result, or the catch block, which only logs
LoadExpensesSettles(l, delivered) ==
    /\ l \in view.loads
    /\ view' = [view EXCEPT !.loads = @ \ {l}]
    /\ expenses' = IF delivered
                   THEN SortNewestFirst(InIdOrder(ExpensesForTrip(l.tripId, l.uid), 1))
                   ELSE expenses
    /\ UNCHANGED <<trips, awaiting, login, editor, storeVars, calcVars, formFetches,
                   today, localToday, rateVars, gateVars, localVars, link>>

\* handleSaveExpense for a new entry of the trip on screen
SaveInOpenTrip(expense, delivered) ==
    /\ view.activeTripId # <<>>
    /\ expense["tripId"] = view.activeTripId[1]
    /\ HandleSaveNewExpense(expense, delivered)

\* a user who has two trips, signed in, on the home screen
ViewInit ==
    /\ CalcInit
    /\ today = 1
    /\ localToday = today
    /\ RateInit
    /\ GateInit
    /\ currentUser = <<"u1">>
    /\ tripDocs = [t \in TripIds \cup UuidTripIds |->
                     IF t \in ViewTripIds
                     THEN [id |-> t, userId |-> "u1", name |-> "Tokyo"]
                     ELSE NoDoc]
    /\ expenseDocs = [i \in ExpenseIds \cup UuidExpenseIds |-> NoDoc]
    /\ delTrip = IdleDelete
    /\ lastOp = NoOp
    /\ callerChanged = FALSE
    /\ childWritten = FALSE
    /\ LocalInit
    /\ trips = TripList("u1")
    /\ expenses = <<>>
    /\ awaiting = Idle("none", FALSE, "")
    /\ LinkInit
    /\ login = [pc |-> "idle", pref |-> <<"anonymous">>, showWelcome |-> FALSE,
                loads |-> {}]
    /\ view = [activeTripId |-> <<>>, loads |-> {}]
    /\ editor = ClosedEditor

ViewNext ==
    \/ \E id \in ViewTripIds : OpenTrip(id)
    \/ \E l \in view.loads, d \in BOOLEAN : LoadExpensesSettles(l, d)
    \/ \E t \in ViewTripIds : \E e \in NewExpensesOf(t), d \in BOOLEAN :
          SaveInOpenTrip(e, d)
    \/ HandleSaveExpenseReturns

(***************************************************************************)
(* The item text editor of the form: in edit mode the textarea is filled   *)
(* with formatItemsToString(initialData.items), and handleSave stores      *)
(* parseStringToItems(itemsText).  A text is the sequence of its           *)
(* characters.                                                             *)
(***************************************************************************)
MaxNameLen == 2

MaxItems == 2

\* the characters of the names: a letter, the bar of the separator, a
\* blank and a line break
Alphabet == {"a", "|", " ", "\n"}

\* what String.prototype.trim removes
Whitespace == {" ", "\n"}

Texts(n) == UNION {[1..k -> Alphabet] : k \in 0..n}

\* the items an expense can hold
ExpenseItems == [originalName : Texts(MaxNameLen), name : Texts(MaxNameLen)]

ItemLists == UNION {[1..k -> ExpenseItems] : k \in 0..MaxItems}

Separator == <<"|", "|">>

\* the first place from i on where sep occurs in text, or 0
RECURSIVE IndexOf(_, _, _)
IndexOf(text, sep, i) ==
    IF i + Len(sep) - 1 > Len(text) THEN 0
    ELSE IF SubSeq(text, i, i + Len(sep) - 1) = sep THEN i
    ELSE IndexOf(text, sep, i + 1)

\* text.split(sep)
RECURSIVE Split(_, _)
Split(text, sep) ==
    LET i == IndexOf(text, sep, 1)
    IN  IF i = 0 THEN <<text>>
        ELSE <<SubSeq(text, 1, i - 1)>> \o Split(SubSeq(text, i + Len(sep), Len(text)), sep)

\* lines.join('\n')
RECURSIVE Join(_)
Join(lines) ==
    IF lines = <<>> THEN <<>>
    ELSE IF Len(lines) = 1 THEN lines[1]
    ELSE lines[1] \o <<"\n">> \o Join(Tail(lines))

RECURSIVE TrimStart(_)
TrimStart(text) ==
    IF text # <<>> /\ text[1] \in Whitespace THEN TrimStart(Tail(text)) ELSE text

RECURSIVE TrimEnd(_)
TrimEnd(text) ==
    IF text # <<>> /\ text[Len(text)] \in Whitespace
    THEN TrimEnd(SubSeq(text, 1, Len(text) - 1))
    ELSE text

\* text.trim()
Trim(text) == TrimEnd(TrimStart(text))

\* a slip: the separator is written without the blanks around it
ItemLineBareSeparator(i) ==
    IF i.originalName = i.name THEN i.name
    ELSE i.originalName \o Separator \o i.name

\* the line of formatItemsToString for item i
ItemLine(i) ==
    IF i.originalName = i.name THEN i.name
    ELSE i.originalName \o <<" ">> \o Separator \o <<" ">> \o i.name

FormatItemsToString(items) == Join([k \in 1..Len(items) |-> ItemLine(items[k])])

\* text.split('\n').filter(line => line.trim())
RECURSIVE KeptLinesOf(_)
KeptLinesOf(lines) ==
    IF lines = <<>> THEN <<>>
    ELSE IF Trim(lines[1]) # <<>> THEN <<lines[1]>> \o KeptLinesOf(Tail(lines))
    ELSE KeptLinesOf(Tail(lines))

KeptLines(text) == KeptLinesOf(Split(text, <<"\n">>))

\* the item parseStringToItems makes of a line
ParsedLine(line) ==
    LET parts == Split(line, Separator)
    IN  IF Len(parts) > 1
        THEN [originalName |-> Trim(parts[1]), name |-> Trim(parts[2])]
        ELSE [originalName |-> Trim(line), name |-> Trim(line)]

ParseStringToItems(text) ==
    LET lines == KeptLines(text)
    IN  [k \in 1..Len(lines) |-> ParsedLine(lines[k])]

\* the form opens for an expense, with its items
OpenForEdit ==
    /\ editor.pc = "closed"
    /\ \E items \in ItemLists :
          editor' = [pc |-> "editing", items |-> items,
                     itemsText |-> FormatItemsToString(items), parsed |-> <<>>]
    /\ UNCHANGED notEditor

\* handleSave with the text as it was filled in
SaveItems ==
    /\ editor.pc = "editing"
    /\ editor' = [editor EXCEPT !.pc = "saved",
                                !.parsed = ParseStringToItems(editor.itemsText)]
    /\ UNCHANGED notEditor

\* onClose
CloseEditor ==
    /\ editor.pc = "saved"
    /\ editor' = ClosedEditor
    /\ UNCHANGED notEditor

ItemsNext ==
    \/ OpenForEdit
    \/ SaveItems
    \/ CloseEditor

(***************************************************************************)
(* The specifications: every component starts idle on day 1.               *)
(***************************************************************************)
Init ==
    /\ CalcInit
    /\ today = 1
    /\ localToday = today
    /\ RateInit
    /\ GateInit
    /\ StoreInit
    /\ LocalInit
    /\ AppInit
    /\ LinkInit
    /\ AuthInit
    /\ view = [activeTripId |-> <<>>, loads |-> {}]
    /\ editor = ClosedEditor

SpecCalc == Init /\ [][CalcNext]_vars

SpecRate == Init /\ [][RateNext]_vars

SpecAnalysis == Init /\ [][AnalysisNext]_vars

SpecStore == Init /\ [][StoreNext]_vars

SpecAdapter == Init /\ [][AdapterNext]_vars

SpecLocal == Init /\ [][LocalNext]_vars

SpecApp == Init /\ [][AppNext]_vars

SpecLink == Init /\ [][LinkNext]_vars

SpecList == Init /\ [][ListNext]_vars

SpecAuth == Init /\ [][AuthNext]_vars

SpecView == ViewInit /\ [][ViewNext]_vars

SpecForm == Init /\ [][FormNext]_vars

SpecItems == Init /\ [][ItemsNext]_vars

\* the form with room for one analyzeReceipt call more than SpecAnalysis
\* has, so that a call can start while another awaits the model
OverlapInit ==
    /\ CalcInit
    /\ today = 1
    /\ localToday = today
    /\ RateInit
    /\ apiUsage = NoUsage
    /\ userApiKey = <<>>
    /\ currentUserEmail = <<>>
    /\ analyses = [i \in 1..(MaxAnalyses + 1) |-> IdleAnalysis]
    /\ lastAnalysis = NoAnalysis
    /\ StoreInit
    /\ LocalInit
    /\ AppInit
    /\ LinkInit
    /\ AuthInit
    /\ view = [activeTripId |-> <<>>, loads |-> {}]
    /\ editor = ClosedEditor

\* the form in the hands of one caller who has no personal key and is not
\* an administrator
OverlapNext ==
    \/ OpenModal
    \/ CloseModal
    \/ StartAnalysis
    \/ \E i \in DOMAIN analyses, r \in ModelResponses : AnalysisReturns(i, r)
    \/ \E j \in RateCallIds : HandleFetchRateReturns(j, FALSE, FormLookupText)
    \/ \E j \in RateCallIds : HandleFetchRateReturns(j, TRUE, <<>>)
    \/ DayRollsOver

SpecOverlap == OverlapInit /\ [][OverlapNext]_vars

(***************************************************************************)
(* C1 (as stated): for every expense handleSave builds with                *)
(* originalAmount >= 0, exchangeRate > 0 and splitCount n >= 1, totalHome  *)
(* is originalAmount * exchangeRate, myShare is totalHome / n, debtOwed is *)
(* totalHome - myShare, and myShare * n = totalHome and myShare + debtOwed *)
(* = totalHome hold exactly.                                               *)
(***************************************************************************)
C1_ExactSplit ==
    built # NoExpense =>
        /\ built.totalTWD = FMul(built.originalAmount, built.exchangeRate)
        /\ FMul(built.myShareTWD, FFromInt(built.splitCount)) = built.totalTWD
        /\ FAdd(built.myShareTWD, built.debtAmountTWD) = built.totalTWD

(***************************************************************************)
(* C1 (amended): for every expense handleSave builds with                  *)
(* originalAmount >= 0, exchangeRate > 0 and splitCount n >= 1, totalHome  *)
(* is originalAmount * exchangeRate, myShare is totalHome / n and debtOwed *)
(* is totalHome - myShare in double arithmetic, so that myShare * n and    *)
(* myShare + debtOwed each differ from totalHome by at most one unit in    *)
(* the last place (totalHome * 2^-52); with n = 1, myShare = totalHome and *)
(* debtOwed = 0 exactly, and 1000 at rate 0.22 split 4 ways gives exactly  *)
(* totalHome 220, myShare 55 and debtOwed 165.                             *)
(***************************************************************************)
C1_SplitWithinTolerance ==
    built # NoExpense =>
        /\ built.splitCount >= 1
        /\ built.totalTWD = FMul(built.originalAmount, built.exchangeRate)
        /\ built.myShareTWD = FDiv(built.totalTWD, FFromInt(built.splitCount))
        /\ FLeq(built.myShareTWD, built.totalTWD)
        /\ built.debtAmountTWD = FSub(built.totalTWD, built.myShareTWD)
        /\ WithinTolerance(FMul(built.myShareTWD, FFromInt(built.splitCount)),
                           built.totalTWD)
        /\ WithinTolerance(FAdd(built.myShareTWD, built.debtAmountTWD),
                           built.totalTWD)
        /\ built.splitCount = 1 =>
              built.myShareTWD = built.totalTWD /\ built.debtAmountTWD = FZero
        /\ (form.amount = <<1000>> /\ form.rate = 22 /\ built.splitCount = 4) =>
              /\ built.totalTWD = FFromInt(220)
              /\ built.myShareTWD = FFromInt(55)
              /\ built.debtAmountTWD = FFromInt(165)

\* an expense split several ways whose share times the head count misses the
\* total by one unit in the last place has been built
C1_Witness ==
    /\ built # NoExpense
    /\ built.splitCount > 1
    /\ built.debtAmountTWD # FZero
    /\ FMul(built.myShareTWD, FFromInt(built.splitCount)) # built.totalTWD


(***************************************************************************)
(* Claims about analyzeReceipt and startAnalysis.                          *)
(***************************************************************************)
FallbackStoreName == "U+672A U+547D U+540D U+6D88 U+8CBB"

FallbackItemName == "U+7121 U+6CD5 U+8FA8 U+8B58 U+9805 U+76EE"

(***************************************************************************)
(* C2: every receipt analysis started from the form leaves the ANALYZING   *)
(* step and reaches EDIT, analyzeReceipt never raising an error to its     *)
(* caller: no analyzeReceipt call has ended by throwing, and whenever the  *)
(* form shows ANALYZING an analysis is still waiting for the model (whose  *)
(* answer, whatever it is, moves the form to EDIT).                        *)
(***************************************************************************)
C2_AnalysisReachesEdit ==
    /\ lastAnalysis.outcome # "threw"
    /\ step = "ANALYZING" => \E i \in AnalysisIds : analyses[i].pc = "model"

(***************************************************************************)
(* C3: when the model call of analyzeReceipt throws, returns no text, or   *)
(* returns text that does not parse, analyzeReceipt returns the fixed      *)
(* fallback record (placeholder store name, today's date, totalAmount 0,   *)
(* currency TWD, exactly one placeholder item, exchange rate 1) instead of *)
(* throwing.                                                               *)
(***************************************************************************)
C3_FailedModelCallFallsBack ==
    [][\A i \in AnalysisIds, r \in ModelResponses :
          (/\ AnalysisReturns(i, r)
           /\ r.threw \/ r.text = "" \/ r.text \notin {"json:Lawson", "json:7-ELEVEN"})
             => lastAnalysis' =
                   [outcome |-> "returned",
                    result  |-> [storeName |-> FallbackStoreName,
                                 date |-> today,
                                 totalAmount |-> 0,
                                 currency |-> "TWD",
                                 items |-> <<[name |-> FallbackItemName,
                                              originalName |-> "Unknown Item"]>>,
                                 exchangeRateToTWD |-> 100]]]_vars

\* an analysis whose model call failed has filled the form from the fallback
\* record and shows the EDIT step
C3_Witness ==
    /\ lastAnalysis.outcome = "returned"
    /\ lastAnalysis.result.storeName = FallbackStoreName
    /\ Len(lastAnalysis.result.items) = 1
    /\ step = "EDIT"
    /\ form.amount = <<0>>
    /\ form.currency = "TWD"
    /\ form.rateSource = "AI Estimate"

(***************************************************************************)
(* C4: when the caller has no personal API key, is not on the admin        *)
(* allow-list, and today's usage count has reached the daily limit,        *)
(* analyzeReceipt fails with DAILY_LIMIT_REACHED and the model is not      *)
(* invoked for that call.                                                  *)
(***************************************************************************)
C4_QuotaReachedFailsFast ==
    [][(/\ StartAnalysis
        /\ userApiKey = <<>>
        /\ currentUserEmail = <<>> \/ currentUserEmail[1] \notin ADMIN_EMAILS
        /\ apiUsage # NoUsage
        /\ apiUsage.date = today
        /\ apiUsage.count >= 2)
          => /\ lastAnalysis' = [outcome |-> "threw", error |-> "DAILY_LIMIT_REACHED"]
             /\ analyses' = analyses
             /\ apiUsage' = apiUsage]_vars

\* a signed-in user who is not an admin, with two calls counted today, was
\* refused: no analysis is waiting for the model
C4_Witness ==
    /\ lastAnalysis.outcome = "threw"
    /\ lastAnalysis.error = "DAILY_LIMIT_REACHED"
    /\ userApiKey = <<>>
    /\ currentUserEmail = <<"guest@example.com">>
    /\ apiUsage # NoUsage
    /\ apiUsage.date = today
    /\ apiUsage.count = 2
    /\ \A i \in AnalysisIds : analyses[i].pc = "idle"
    /\ step = "ANALYZING"

(***************************************************************************)
(* Claims about the Firestore adapter.                                     *)
(***************************************************************************)
\* a deleteTrip call returns without an error in this step
DeleteTripSucceeds ==
    /\ delTrip.pc # "idle"
    /\ delTrip'.pc = "idle"
    /\ lastOp' = [op |-> "deleteTrip", outcome |-> "ok", alert |-> ""]

\* in the next state fetchExpensesForTrip(tripId) returns the empty list
FetchIsEmptyNext(tripId) ==
    /\ currentUser' # <<>>
    /\ \A i \in ExpenseIds :
          ~ /\ expenseDocs'[i] # NoDoc
            /\ expenseDocs'[i]["tripId"] = tripId
            /\ expenseDocs'[i]["userId"] = currentUser'[1]

(***************************************************************************)
(* C8 (as stated): after deleteTrip(T) completes successfully,             *)
(* fetchExpensesForTrip(T) by the same caller (the identity was the same   *)
(* throughout the call) returns an empty list.                             *)
(***************************************************************************)
C8_NoExpenseAfterDeleteTrip ==
    [][(DeleteTripSucceeds /\ ~callerChanged) => FetchIsEmptyNext(delTrip.id)]_vars

(***************************************************************************)
(* C8 (amended): after deleteTrip(T) completes successfully,               *)
(* fetchExpensesForTrip(T) by the same caller (the identity was the same   *)
(* throughout the call) returns an empty list, provided that no expense    *)
(* referencing T was saved or updated while the deleteTrip call was in     *)
(* progress.                                                               *)
(***************************************************************************)
C8_NoExpenseAfterUndisturbedDeleteTrip ==
    [][(DeleteTripSucceeds /\ ~callerChanged /\ ~childWritten)
          => FetchIsEmptyNext(delTrip.id)]_vars

\* an undisturbed deleteTrip has succeeded: the trip and its expenses are
\* gone, an expense of another trip is still stored
C8_Witness ==
    /\ lastOp = [op |-> "deleteTrip", outcome |-> "ok", alert |-> ""]
    /\ ~callerChanged
    /\ ~childWritten
    /\ delTrip.pc = "idle"
    /\ currentUser # <<>>
    /\ tripDocs["t1"] = NoDoc
    /\ \A i \in ExpenseIds : expenseDocs[i] # NoDoc => expenseDocs[i]["tripId"] # "t1"
    /\ \E i \in ExpenseIds : /\ expenseDocs[i] # NoDoc
                             /\ expenseDocs[i]["userId"] = currentUser[1]

\* a call of the adapter is made in this step
AdapterCall ==
    \/ \E t \in TripInputs \cup OwnedTripInputs, d \in BOOLEAN : SaveTrip(t, d)
    \/ \E e \in ExpenseInputs \cup DatedExpenseInputs, d \in BOOLEAN :
          SaveExpense(e, d) \/ UpdateExpense(e, d)
    \/ \E i \in ExpenseIds, d \in BOOLEAN : DeleteExpense(i, d)
    \/ \E t \in TripIds : DeleteTrip(t)
    \/ \E d \in BOOLEAN : FetchTrips(d)
    \/ \E t \in ExpenseTripIds, d \in BOOLEAN : FetchExpensesForTrip(t, d)

(***************************************************************************)
(* C11: with no active identity, every persistence operation (fetchTrips,  *)
(* saveTrip, deleteTrip, fetchExpensesForTrip, saveExpense, updateExpense, *)
(* deleteExpense) fails before it issues any read, write or delete: the    *)
(* call ends as a failure, no request is left in progress and the store is *)
(* unchanged.                                                              *)
(***************************************************************************)
C11_NoIdentityFailsFast ==
    [][(currentUser = <<>> /\ AdapterCall)
          => /\ lastOp'.op # "none"
             /\ lastOp'.outcome = "failed"
             /\ delTrip' = delTrip
             /\ tripDocs' = tripDocs
             /\ expenseDocs' = expenseDocs]_vars

\* every element of the array is a {name, originalName} pair
OnlyPairs(text) ==
    \A j \in 1..Len(ItemList(text)) :
        DOMAIN ItemList(text)[j] = {"name", "originalName"}

(***************************************************************************)
(* C12: every expense returned by a read operation has an item list made   *)
(* only of {name, originalName} pairs; here for fetchExpensesForTrip on    *)
(* the remote store, where items saved as bare strings are stored as such. *)
(***************************************************************************)
C12_ReadsReturnOnlyPairs ==
    (lastOp.op = "fetchExpensesForTrip" /\ lastOp.outcome = "ok")
        => \A k \in 1..Len(lastOp.result) : OnlyPairs(lastOp.result[k]["items"])

\* the local store holds the expense id with bare-string items
StoredLegacy(id) ==
    \E j \in 1..Len(localExpenses) :
        /\ localExpenses[j]["id"] = id
        /\ "items" \in DOMAIN localExpenses[j]
        /\ ~OnlyPairs(localExpenses[j]["items"])

\* a read of the local adapter is made in this step
LocalRead ==
    GetTrips \/ GetAllExpenses \/ \E t \in ExpenseTripIds : GetExpensesForTrip(t)

\* an expense other than id is saved, updated or deleted in this step
WritesAnother(id) ==
    \/ \E e \in LocalExpenseInputs, f, g \in BOOLEAN :
          e.id # id /\ (LocalSaveExpense(e, f, g) \/ LocalUpdateExpense(e, f, g))
    \/ \E i \in ExpenseIds : i # id /\ LocalDeleteExpense(i)

(***************************************************************************)
(* C13: the legacy upgrade never rewrites a stored record on its own: a    *)
(* read leaves the local store unchanged, and a stored expense with        *)
(* bare-string items still has them after a different expense is saved,    *)
(* updated or deleted.                                                     *)
(***************************************************************************)
C13_UpgradeNeverRewrites ==
    [][/\ LocalRead => (localExpenses' = localExpenses /\ localTrips' = localTrips)
       /\ \A id \in ExpenseIds :
             (WritesAnother(id) /\ StoredLegacy(id)) => StoredLegacy(id)']_vars

\* the positions of the records with this identifier
PositionsOf(list, id) == {j \in 1..Len(list) : list[j]["id"] = id}

(***************************************************************************)
(* C17: saveTrip and saveExpense are idempotent overwrites keyed by        *)
(* identifier: after a save that stored the record, the store holds        *)
(* exactly one record with that identifier and it equals the record saved  *)
(* (here on the local adapter, with the quota not used up).                *)
(***************************************************************************)
C17_SaveOverwritesById ==
    [][/\ \A t \in TripInputs :
             LocalSaveTrip(t, FALSE)
                => /\ Cardinality(PositionsOf(localTrips', t.id)) = 1
                   /\ \A j \in PositionsOf(localTrips', t.id) : localTrips'[j] = t
       /\ \A e \in LocalExpenseInputs :
             LocalSaveExpense(e, FALSE, FALSE)
                => /\ Cardinality(PositionsOf(localExpenses', e.id)) = 1
                   /\ \A j \in PositionsOf(localExpenses', e.id) : localExpenses'[j] = e]_vars

\* the elements of a list
Elements(list) == {list[j] : j \in 1..Len(list)}

(***************************************************************************)
(* C14: fetchExpensesForTrip(tripId) returns exactly the stored expenses   *)
(* whose tripId equals the argument and whose owner equals the caller's    *)
(* current identity, each once, ordered by occurrence date descending      *)
(* (newest first).                                                         *)
(***************************************************************************)
C14_FetchFiltersAndSortsNewestFirst ==
    [][\A t \in ExpenseTripIds :
          (FetchExpensesForTrip(t, TRUE) /\ currentUser # <<>>)
             => LET result == lastOp'.result
                    stored == {expenseDocs[i] : i \in {x \in DOMAIN expenseDocs :
                                   /\ Exists(expenseDocs[x])
                                   /\ expenseDocs[x]["tripId"] = t
                                   /\ expenseDocs[x]["userId"] = currentUser[1]}}
                IN  /\ lastOp'.outcome = "ok"
                    /\ Elements(result) = stored
                    /\ Len(result) = Cardinality(stored)
                    /\ \A j, k \in 1..Len(result) :
                          j < k => GetTime(result[j]["date"]) >= GetTime(result[k]["date"])]_vars

\* a fetch returned two expenses, the one stored second first for its later date
C14_Witness ==
    /\ lastOp.op = "fetchExpensesForTrip"
    /\ lastOp.outcome = "ok"
    /\ Len(lastOp.result) = 2
    /\ lastOp.result[1]["id"] = "e2"
    /\ GetTime(lastOp.result[1]["date"]) > GetTime(lastOp.result[2]["date"])
    /\ \A j \in 1..2 : lastOp.result[j] = expenseDocs[lastOp.result[j]["id"]]

(***************************************************************************)
(* C18: every trip or expense record written by saveTrip, saveExpense or   *)
(* updateExpense carries an owner field equal to the identity that is      *)
(* current at the moment of the write, whatever owner value the input      *)
(* record carried.                                                         *)
(***************************************************************************)
C18_WrittenRecordOwnedByCaller ==
    [][/\ \A t \in OwnedTripInputs :
             (lastOp'.op = "saveTrip" /\ lastOp'.outcome = "ok" /\ SaveTrip(t, TRUE))
                => /\ currentUser # <<>>
                   /\ tripDocs'[t.id]["userId"] = currentUser[1]
       /\ \A e \in DatedExpenseInputs :
             (/\ lastOp'.op \in {"saveExpense", "updateExpense"}
              /\ lastOp'.outcome = "ok"
              /\ Exists(expenseDocs'[e.id])
              /\ expenseDocs'[e.id]["date"] = e.date
              /\ expenseDocs'[e.id]["tripId"] = e.tripId
              /\ SaveExpense(e, TRUE) \/ UpdateExpense(e, TRUE))
                => /\ currentUser # <<>>
                   /\ expenseDocs'[e.id]["userId"] = currentUser[1]]_vars

\* u1 has just updated an expense, and the other stored expense is u2's
C18_Witness ==
    /\ currentUser = <<"u1">>
    /\ lastOp.op = "updateExpense"
    /\ lastOp.outcome = "ok"
    /\ \E i, j \in ExpenseIds :
          /\ Exists(expenseDocs[i]) /\ expenseDocs[i]["userId"] = "u1"
          /\ Exists(expenseDocs[j]) /\ expenseDocs[j]["userId"] = "u2"

\* a handler of the view controller runs on from the return of its call
HandlerReturns ==
    \/ HandleCreateTripReturns
    \/ ConfirmDeleteTripReturns
    \/ HandleSaveExpenseReturns
    \/ HandleDeleteExpenseReturns
    \/ ToggleRepaymentReturns

(***************************************************************************)
(* C15: when the persistence operation invoked by a handler of the view    *)
(* controller fails (saveTrip, deleteTrip, saveExpense, updateExpense,     *)
(* deleteExpense), the in-memory trip list and expense list are exactly    *)
(* what they were before the action.                                       *)
(***************************************************************************)
C15_FailedHandlerLeavesLists ==
    [][(HandlerReturns /\ awaiting'.failed)
          => /\ trips' = awaiting.before[1]
             /\ expenses' = awaiting.before[2]]_vars

\* the edit of one of two listed expenses has just failed
C15_Witness ==
    /\ awaiting.handler = "none"
    /\ awaiting.last = "handleSaveExpense (edit)"
    /\ awaiting.failed
    /\ Len(trips) = 1
    /\ Len(expenses) = 2

\* the two records agree outside these fields
SameBut(a, b, fields) ==
    /\ DOMAIN a = DOMAIN b
    /\ \A k \in DOMAIN a \ fields : a[k] = b[k]

\* the copies of the guest's trip t: documents of the Google account under
\* a generated identifier, with the fields of t
TripCopies(t) ==
    {c \in OwnedBy(tripDocs, currentUser[1]) \cap UuidTripIds :
        /\ t \in OwnedBy(tripDocs, link.guest)
        /\ tripDocs[c]["id"] = c
        /\ SameBut(tripDocs[c], tripDocs[t], {"id", "userId"})}

\* the copies of the guest's expense e, which refer to a copy of its trip
ExpenseCopies(e) ==
    {c \in OwnedBy(expenseDocs, currentUser[1]) \cap UuidExpenseIds :
        /\ expenseDocs[c]["id"] = c
        /\ SameBut(expenseDocs[c], expenseDocs[e], {"id", "userId", "tripId"})
        /\ expenseDocs[c]["tripId"] \in TripCopies(expenseDocs[e]["tripId"])}

\* the migration has completed without error
MigrationDone == link.pc = "done" /\ currentUser = <<GoogleUser(link.guest)>>

C19_SplitCountAtLeastOne ==
    built # NoExpense => built.splitCount >= 1

\* an expense was saved with the split on and no people, or fewer, entered
C19_Witness ==
    /\ built # NoExpense
    /\ ~modalOpen
    /\ form.isSplit
    /\ form.totalPeople <= 0
    /\ built.splitCount = 1

\* the model call of some analysis settles in this step
SomeAnalysisReturns ==
    \E i \in AnalysisIds : analyses[i].pc = "model" /\ analyses'[i].pc = "idle"

C9_OversizedSaveRetriesWithoutImage ==
    [][\A e \in ExpenseInputs :
          (/\ SaveExpense(e, TRUE)
           /\ currentUser # <<>>
           /\ e.receiptImage = OversizedImage)
             => /\ lastOp'.outcome = "ok"
                /\ lastOp'.alert # ""
                /\ expenseDocs'[e.id] # NoDoc
                /\ "receiptImage" \notin DOMAIN expenseDocs'[e.id]]_vars

(***************************************************************************)
(* C10: updateExpense is a full-document overwrite: after a successful     *)
(* updateExpense(e) the stored record with e's identifier has exactly the  *)
(* defined fields of e, with e's values, plus the owner field; no field of *)
(* the record stored before that is absent or undefined in e survives.     *)
(***************************************************************************)
C10_UpdateOverwrites ==
    [][\A e \in ExpenseInputs :
          (UpdateExpense(e, TRUE) /\ lastOp'.outcome = "ok")
             => /\ DOMAIN expenseDocs'[e.id] =
                      {f \in DOMAIN e : e[f] # Undefined} \cup {"userId"}
                /\ \A f \in DOMAIN e :
                      e[f] # Undefined => expenseDocs'[e.id][f] = e[f]
                /\ expenseDocs'[e.id]["userId"] = currentUser[1]]_vars

(***************************************************************************)
(* Claims about fetchExchangeRate.                                         *)
(***************************************************************************)
HomeSpellings == {"TWD", "twd"}

KeyOf(c) == IF c = "jpy" THEN "JPY" ELSE c

\* a lookup for the currency filed under key delivered a positive rate today
GotToday(key) == gotExternal[key] # NoEntry /\ gotExternal[key].date = today

\* call j, waiting for its lookup, returns in this step
Settles(j) == rateCalls[j].pc = "lookup" /\ rateCalls'[j].pc = "idle"

C6_FailedThenLookupAgain ==
    [][\A j \in RateCallIds :
          /\ (Settles(j) /\ lastRate'.source # "Google Search")
                => /\ lastRate'.rate = 100
                   /\ lastRate'.source \in {"Failed", "Error"}
                   /\ rateCache' = rateCache
          /\ \A c \in Currencies \ HomeSpellings :
                (FetchExchangeRate(j, c) /\ lastFailed[KeyOf(c)] = today)
                   => rateCalls'[j].pc = "lookup"]_vars

(***************************************************************************)
(* C6 (amended): when the external lookup throws or yields no positive     *)
(* number, fetchExchangeRate returns rate 1 with source Failed or Error    *)
(* and leaves the rate cache as it was, so the next call for the same      *)
(* currency on the same day invokes the external lookup again, unless the  *)
(* lookup of another, overlapping call has cached a rate for that currency *)
(* that day.                                                               *)
(***************************************************************************)
C6_FailedNotCached ==
    [][\A j \in RateCallIds :
          /\ (Settles(j) /\ lastRate'.source # "Google Search")
                => /\ lastRate'.rate = 100
                   /\ lastRate'.source \in {"Failed", "Error"}
                   /\ rateCache' = rateCache
          /\ \A c \in Currencies \ HomeSpellings :
                (FetchExchangeRate(j, c) /\ lastFailed[KeyOf(c)] = today
                                          /\ ~GotToday(KeyOf(c)))
                   => rateCalls'[j].pc = "lookup"]_vars

\* after a failed call, the next call for that currency is waiting for its
\* own lookup
C6_Witness ==
    /\ lastRate # NoRate
    /\ lastRate.source \in {"Failed", "Error"}
    /\ lastFailed[KeyOf(lastRate.currency)] = today
    /\ ~GotToday(KeyOf(lastRate.currency))
    /\ \E j \in RateCallIds :
          /\ rateCalls[j].pc = "lookup"
          /\ KeyOf(rateCalls[j].currency) = KeyOf(lastRate.currency)

(***************************************************************************)
(* C7: fetchExchangeRate for the home currency, TWD in any letter case,    *)
(* returns rate 1 with source Default in every state of the rate cache; it *)
(* neither reads nor writes the cache and does not invoke the lookup.      *)
(***************************************************************************)
C7_HomeCurrencyDefault ==
    [][\A j \in RateCallIds, c \in HomeSpellings :
          FetchExchangeRate(j, c)
             => /\ lastRate' = [currency |-> c, rate |-> 100,
                                source |-> "Default", readCache |-> FALSE]
                /\ rateCache' = rateCache
                /\ rateCalls' = rateCalls]_vars

\* the lower-case home currency was resolved while the cache held a rate
C7_Witness ==
    /\ lastRate # NoRate
    /\ lastRate.currency = "twd"
    /\ lastRate.source = "Default"
    /\ \E k \in CacheKeys : rateCache[k] # NoEntry

(***************************************************************************)
(* C21: a cached rate is returned only on the (local) calendar day it was  *)
(* stored: a fetchExchangeRate call for a non-home currency made when the  *)
(* cache holds no entry of that currency stored on the current calendar    *)
(* day invokes the external lookup, and a lookup that succeeds replaces    *)
(* the entry of that currency only, with the rate it obtained.             *)
(***************************************************************************)
\* the entry filed under key was stored on the current local calendar day
StoredThisCalendarDay(key) ==
    /\ rateCache[key] # NoEntry
    /\ gotExternal[key].localDate = localToday

C21_CachedRateOnlyOnItsDay ==
    [][\A j \in RateCallIds :
          /\ \A c \in Currencies \ HomeSpellings :
                (FetchExchangeRate(j, c) /\ ~StoredThisCalendarDay(KeyOf(c)))
                   => /\ rateCalls'[j].pc = "lookup"
                      /\ lastRate' = lastRate
          /\ (Settles(j) /\ lastRate'.source = "Google Search")
                => rateCache' = SaveRateToCache(KeyOf(rateCalls[j].currency),
                                                lastRate'.rate)]_vars

(***************************************************************************)
(* C22: deleteTrip removes the trip record before it removes any child     *)
(* expense: the step in which the deleteDoc of the trip settles removes    *)
(* the trip and no expense, and no step of the call before the last one    *)
(* removes an expense.  When the query or a delete of a child fails after  *)
(* the trip record was removed, the call reports failure, the trip record  *)
(* is not restored, the deletes that were carried out stay carried out and *)
(* every other child expense stays in the store.                           *)
(***************************************************************************)
C22_TripFirstAndNoRollback ==
    [][/\ \A d \in BOOLEAN :
             TripDeleteSettles(d)
                => /\ expenseDocs' = expenseDocs
                   /\ d => tripDocs'[delTrip.id] = NoDoc
                   /\ (d /\ delTrip'.pc = "idle") => lastOp' = Failed("deleteTrip", "")
       /\ QuerySettles(FALSE)
             => /\ lastOp' = Failed("deleteTrip", "")
                /\ delTrip' = IdleDelete
                /\ tripDocs' = tripDocs
                /\ expenseDocs' = expenseDocs
       /\ QuerySettles(TRUE) => (tripDocs' = tripDocs /\ expenseDocs' = expenseDocs)
       /\ \A removed \in SUBSET ExpenseIds :
             (ExpenseDeletesSettle(removed) /\ removed # delTrip.found)
                => /\ lastOp' = Failed("deleteTrip", "")
                   /\ delTrip' = IdleDelete
                   /\ tripDocs' = tripDocs
                   /\ \A e \in removed : expenseDocs'[e] = NoDoc
                   /\ \A e \in DOMAIN expenseDocs \ removed :
                         expenseDocs'[e] = expenseDocs[e]]_vars

\* the trip record has been removed, it is still missing, and the deletes
\* of its two child expenses are under way, so that each may fail
C22_Witness ==
    /\ delTrip.pc = "removing"
    /\ tripDocs[delTrip.id] = NoDoc
    /\ Cardinality(delTrip.found) = 2
    /\ \A e \in delTrip.found : Exists(expenseDocs[e])

(***************************************************************************)
(* Claims about the in-memory expense list of the open trip.               *)
(***************************************************************************)
\* the trip whose expenses the list holds: the one NewExpenses belong to
OpenTripId == "t1"

ExpenseHandlers ==
    {"handleSaveExpense", "handleSaveExpense (edit)", "handleDeleteExpense",
     "toggleRepayment"}

\* the fields of interface Expense; a field that is absent reads undefined
ExpenseFields == {"id", "tripId", "date", "items", "isRepaid", "receiptImage"}

AsExpense(record) ==
    [f \in ExpenseFields |-> IF f \in DOMAIN record THEN record[f] ELSE Undefined]

AsExpenses(list) == [j \in 1..Len(list) |-> AsExpense(list[j])]

\* what fetchExpensesForTrip(OpenTripId) would return now
WouldFetch ==
    SortNewestFirst(InIdOrder(ExpensesForTrip(OpenTripId, currentUser[1]), 1))

\* the expense list once the handler in progress has returned
ListOnReturn ==
    CASE awaiting.handler = "handleSaveExpense" ->
            SetAfterAwait(awaiting.ok, expenses,
                          SortNewestFirst(<<awaiting.arg>> \o expenses))
      [] awaiting.handler = "handleSaveExpense (edit)" ->
            SetAfterAwait(awaiting.ok, expenses,
                          SortNewestFirst(Replace(expenses, awaiting.arg)))
      [] awaiting.handler = "handleDeleteExpense" ->
            SetAfterAwait(awaiting.ok, expenses, Without(expenses, awaiting.arg))
      [] awaiting.handler = "toggleRepayment" ->
            SetAfterAwait(awaiting.ok, expenses, Replace(expenses, awaiting.arg))
      [] OTHER -> expenses

\* the list is, record by record, what a fetch would return
Synced ==
    /\ currentUser # <<>>
    /\ AsExpenses(ListOnReturn) = AsExpenses(WouldFetch)

\* the records fetchExpensesForTrip(OpenTripId) would return now, as a set
FetchedRecords ==
    {AsExpense(expenseDocs[i]) : i \in ExpensesForTrip(OpenTripId, currentUser[1])}

\* the list holds the records a fetch would return, each once, newest first
SyncedUpToTies ==
    /\ currentUser # <<>>
    /\ LET list == AsExpenses(ListOnReturn)
       IN  /\ Elements(list) = FetchedRecords
           /\ Len(list) = Cardinality(FetchedRecords)
           /\ \A j \in 1..Len(list) - 1 :
                 GetTime(list[j]["date"]) >= GetTime(list[j + 1]["date"])

\* a step of a successful add, edit, delete or toggle-repaid action: the
\* call of the adapter, or the return from it
SuccessfulExpenseStep ==
    \/ /\ awaiting.handler = "none"
       /\ awaiting'.handler \in ExpenseHandlers
       /\ awaiting'.ok
    \/ /\ awaiting.handler \in ExpenseHandlers
       /\ awaiting'.handler = "none"
       /\ awaiting.ok

(***************************************************************************)
(* C23 (as stated): a successful add, edit, delete or toggle-repaid action *)
(* on a list that equals what fetchExpensesForTrip would return for the    *)
(* open trip leaves a list that equals what it would return then: the same *)
(* records in the same order.                                              *)
(***************************************************************************)
C23_ListEqualsFetch ==
    [][(SuccessfulExpenseStep /\ Synced) => Synced']_vars

(***************************************************************************)
(* C23 (amended): after any sequence of successful add, edit, delete and   *)
(* toggle-repaid actions on the open trip, each completing before the next *)
(* starts, the in-memory expense list holds the records that               *)
(* fetchExpensesForTrip would return for that trip, each once, and is      *)
(* ordered newest first; expenses of the same date can be in another order *)
(* than in the fetched list.                                               *)
(***************************************************************************)
C23_ListHoldsFetchedRecordsNewestFirst ==
    [][(SuccessfulExpenseStep /\ SyncedUpToTies) => SyncedUpToTies']_vars

\* after a successful action the list holds the two records a fetch would
\* return, newest first, in another order than the fetch
C23_Witness ==
    /\ awaiting.handler = "none"
    /\ awaiting.last \in ExpenseHandlers
    /\ ~awaiting.failed
    /\ Len(expenses) = 2
    /\ SyncedUpToTies
    /\ ~Synced

(***************************************************************************)
(* C24: the shared-key quota resets with the date.  Whenever the stored    *)
(* usage record is dated on another day than today, getApiUsageToday       *)
(* returns 0 and hasReachedDailyLimit is false; the first increment of a   *)
(* day stores count 1 under today's date and a later one adds 1 to the     *)
(* count; getRemainingApiCalls is the limit less the calls used, and 0     *)
(* when more were used, never negative.                                    *)
(***************************************************************************)
\* the stored usage record is of another day than today
DatedAnotherDay == apiUsage # NoUsage /\ apiUsage.date # today

ReportsNoUser == (Launch /\ currentUser = <<>>) \/ HandleSignOut

\* the listener reports an identity: one that has just signed in, or the
\* one kept at the opening of the page
ReportsUser ==
    /\ currentUser' # <<>>
    /\ login' # login
    /\ currentUser' # currentUser \/ Launch

C26_AtMostLimitResponsesADay ==
    apiUsage # NoUsage => apiUsage.count <= DAILY_API_LIMIT


(***************************************************************************)
(* Claims about the expense list and the trip on screen.                   *)
(***************************************************************************)
\* C27: whenever no load of expenses is in flight, every expense of the
\* in-memory list belongs to the active trip, also when a second trip is
\* opened while the load of the first is pending, when loads finish out of
\* order, or when a load fails
C27_ListBelongsToActiveTrip ==
    (view.activeTripId # <<>> /\ view.loads = {} /\ awaiting.handler = "none")
        => \A j \in 1..Len(expenses) : expenses[j]["tripId"] = view.activeTripId[1]

(***************************************************************************)
(* Claims about the rate field of the form.                                *)
(***************************************************************************)
\* C28: in the add-expense form, a rate lookup made for a previous currency
\* never ends up in the rate field: when the last lookup in flight returns
\* and it was made for another currency than the one entered, the rate
\* field keeps its value
C28_StaleLookupLeavesRate ==
    [][\A j \in formFetches :
          (/\ modalOpen /\ step = "EDIT"
           /\ formFetches' = {}
           /\ rateCalls[j].pc = "lookup"
           /\ ToUpperCase(rateCalls[j].currency) # form.currency)
              => form'.rate = form.rate]_vars

PlainName(name) ==
    /\ name # <<>>
    /\ name[1] \notin Whitespace
    /\ name[Len(name)] \notin Whitespace
    /\ \A k \in 1..Len(name) : name[k] # "\n"
    /\ IndexOf(name, Separator, 1) = 0

PlainItems(items) ==
    \A k \in 1..Len(items) : PlainName(items[k].name) /\ PlainName(items[k].originalName)

\* C30: the item text editor round-trips: for an item list whose names and
\* original names are not empty, have no whitespace at their ends and hold
\* neither a line break nor the separator '||', parsing the formatted text
\* gives the same items in the same order; every parsed item has both
\* fields, and the two are equal for a line without separator
C30_ItemTextRoundTrip ==
    editor.pc = "saved"
       => /\ PlainItems(editor.items) => editor.parsed = editor.items
          /\ LET lines == KeptLines(editor.itemsText)
             IN  /\ Len(editor.parsed) = Len(lines)
                 /\ \A k \in 1..Len(lines) :
                       /\ DOMAIN editor.parsed[k] = {"originalName", "name"}
                       /\ IndexOf(lines[k], Separator, 1) = 0
                             => editor.parsed[k].name = editor.parsed[k].originalName

\* two plain items were saved back as they were: one with a translation
\* and a bar in its original name, one whose two names are the same
C30_Witness ==
    /\ editor.pc = "saved"
    /\ Len(editor.items) = 2
    /\ PlainItems(editor.items)
    /\ editor.items[1].originalName = <<"a", "|">>
    /\ editor.items[1].name = <<"|", "a">>
    /\ editor.items[2].originalName = editor.items[2].name
    /\ editor.parsed = editor.items

====
